---- MODULE Spec2Model ----
(***************************************************************************)
(* Model of the OwlBoard chat service: the in-memory ConnectionManager     *)
(* (src/websocket_manager.py), the websocket protocol handler and the      *)
(* Redis helpers (src/routes/chat_routes.py).                              *)
(*                                                                         *)
(* Every accepted websocket runs one asyncio task.  A task runs without    *)
(* interruption from one await to the next, so each task is a call stack   *)
(* of frames whose pc is either a suspension point (an await on network    *)
(* I/O) or a synchronous position; while one task is at a synchronous      *)
(* position no other task and no client event is scheduled (Quiet).        *)
(***************************************************************************)
EXTENDS Integers, Sequences, FiniteSets, TLC

\* ------------------------------------------------------------------ bounds
NumHandles == 3          \* websocket objects
MaxOpen == 2             \* connection requests that arrive in the runs of Spec
MaxFrames == 1           \* inbound frames received over a run of SpecChat
MaxCloses == 1           \* connections the clients close in a run of SpecChat
MaxLeaves == 3           \* connections the clients close in a run of SpecLeave
MaxFaults == 1           \* store commands that fail in a run of SpecChat
MaxLimit == 2            \* largest message_history_limit configured in SpecStore
MaxExpiries == 1         \* keys whose expiry elapses in a run
MaxRange == 3            \* largest skip and limit of a history read

Handles == 1..NumHandles
Tasks == Handles                 \* one protocol-handler task per websocket
Rooms == {"d1", "d2"}            \* dashboard_id path values
Users == {"A", "B", "C", "D"}           \* user_id query values
NoHandle == 0
NoUser == "-"

\* username query value: one distinct name per connection request
UsernameOf(h) == <<"name", h>>

\* ------------------------------------------------------------------ program constants
max_message_length == 1000
message_history_limit == 50

VARIABLES
    active_connections,  \* room -> dict user_id -> websocket (insertion-ordered entries)
    connection_info,     \* websocket -> [dashboard_id, user_id, username]
    stack,               \* task (one per websocket) -> call stack, top last
    exc,                 \* task -> exception being propagated, "none" if none
    req,                 \* websocket -> the request's [room, user, name]; NoReq before
    transport,           \* websocket -> "none" | "pending" | "open" | "peer_closed" | "svc_closed"
    closeCode,           \* websocket -> close code the service sent, 0 if none
    inbox,               \* websocket -> frames the client has received, in order
    framesIn,            \* inbound frames received so far (all connections)
    userHash,            \* redis hash user:{room}:{user}: <<room,user>> -> record
    userSet,             \* redis set connected_users:{room}
    msgHash,             \* redis hash message:{room}:{id}: id -> record
    msgList,             \* redis list messages:{room}: sequence of ids
    nextId,              \* number of uuid4 ids generated (ChatMessage and ChatRoom objects)
    lastOp,              \* history: room, user -> last registry operation applied
    regOrder,            \* history: the websockets in the order connect registered them
    sendq,               \* websocket -> tasks whose send_text on it is awaited, oldest first
    issued,              \* history: number of broadcast_to_dashboard calls so far
    got,                 \* history: the inbound frames received, [by, text], in order
    created,             \* history: the ChatMessage objects built, in order
    leftCalls,           \* history: the calls of broadcast_user_left, [ws, by]
    faults,              \* history: the store commands that failed, [by, id, at]
    history_limit,       \* settings.message_history_limit of this deployment
    roomHash,            \* redis hash room:{room}: room -> record
    pushed,              \* history: room -> the ids pushed to its list since it was last deleted
    responses,           \* history: the responses of the REST requests, in order
    expired              \* history: the keys whose expiry has elapsed

vars == <<active_connections, connection_info, stack, exc, req, transport,
          closeCode, inbox, framesIn, userHash, userSet, msgHash, msgList,
          nextId, lastOp, regOrder, sendq, issued, got, created, leftCalls, faults,
          history_limit, roomHash, pushed, responses, expired>>

registryVars == <<active_connections, connection_info, lastOp, regOrder>>
storeVars == <<userHash, userSet, msgHash, msgList>>
clientVars == <<req, transport, closeCode, inbox, framesIn, sendq>>
histVars == <<got, created, leftCalls, faults>>
restVars == <<history_limit, roomHash, pushed, responses, expired>>

NoReq == [room |-> "", user |-> "", name |-> <<>>]

\* ------------------------------------------------------------------ Python dict
\* A dict keeps its entries in insertion order; del leaves a dummy entry in
\* place, a new key is appended, an assignment to an existing key replaces the
\* value in place.  (A table of 8 slots holds 5 entries before it is rebuilt;
\* a room's dict sees at most NumHandles insertions.)
Tomb == [k |-> NoUser, v |-> NoHandle]

DictLive(d) == {i \in 1..Len(d) : d[i].k # NoUser}

DictUsed(d) == Cardinality(DictLive(d))

DictHas(d, key) == \E i \in 1..Len(d) : d[i].k = key

DictIdx(d, key) == CHOOSE i \in 1..Len(d) : d[i].k = key

DictGet(d, key) == d[DictIdx(d, key)].v

DictSet(d, key, val) ==
    IF DictHas(d, key) THEN [d EXCEPT ![DictIdx(d, key)].v = val]
    ELSE Append(d, [k |-> key, v |-> val])

\* a faulty del that leaves the entry in the dict
DictDelNothing(d, key) == d

DictDel(d, key) == [d EXCEPT ![DictIdx(d, key)] = Tomb]

DictKeys(d) == {d[i].k : i \in DictLive(d)}

DictValues(d) == {d[i].v : i \in DictLive(d)}

\* dict.items() iterator: how many entries the dict had when it was created
\* (used), how many it still expects (len), the next index (pos); stale is set
\* once the dict object it reads has been emptied and dropped from
\* active_connections.
NewIter(d) == [pos |-> 1, used |-> DictUsed(d), len |-> DictUsed(d), stale |-> FALSE]

\* first live index at or after i, Len(d)+1 if none
RECURSIVE SkipDummies(_, _)
SkipDummies(d, i) ==
    IF i > Len(d) THEN i
    ELSE IF d[i].k # NoUser THEN i
    ELSE SkipDummies(d, i + 1)

\* next(iterator): "error" (RuntimeError: dictionary changed size / keys
\* changed during iteration), "stop" (StopIteration) or "item"
IterNext(d, it) ==
    LET i == SkipDummies(d, it.pos) IN
    IF it.stale \/ it.used # DictUsed(d) THEN [res |-> "error", it |-> it, k |-> NoUser, v |-> NoHandle]
    ELSE IF i > Len(d) THEN [res |-> "stop", it |-> it, k |-> NoUser, v |-> NoHandle]
    ELSE IF it.len = 0 THEN [res |-> "error", it |-> it, k |-> NoUser, v |-> NoHandle]
    ELSE [res |-> "item", it |-> [it EXCEPT !.pos = i + 1, !.len = it.len - 1],
          k |-> d[i].k, v |-> d[i].v]

\* ------------------------------------------------------------------ call stacks
\* The awaits of the code: a frame at one of these waits for network I/O.
AwaitPcs == {"accept", "hset", "sadd", "expire", "del", "srem", "rpush", "ltrim",
             "send", "recv", "close", "lrange", "delete", "del_list", "hgetall",
             "room_hset"}

Top(t) == stack[t][Len(stack[t])]

Pop(s) == SubSeq(s, 1, Len(s) - 1)

SetTop(s, f) == [s EXCEPT ![Len(s)] = f]

\* replace the top frame by f (the caller, at its continuation) and push g (the callee)
Call(s, f, g) == Append(SetTop(s, f), g)

\* task t is inside a synchronous stretch of code (it has not reached its next await)
Busy(t) == /\ stack[t] # <<>>
           /\ \/ exc[t] # "none"
              \/ Top(t).pc \notin AwaitPcs

\* every task is suspended at an await (or has not started, or has ended)
Quiet == \A t \in Tasks : ~Busy(t)

At(t, fn, pc) == /\ stack[t] # <<>>
                 /\ exc[t] = "none"
                 /\ Top(t).fn = fn
                 /\ Top(t).pc = pc

\* an await of task t completes and the task is scheduled
Resume(t, fn, pc) == Quiet /\ At(t, fn, pc)

\* ------------------------------------------------------------------ frames
EndpointFrame(pc) == [fn |-> "endpoint", pc |-> pc]

ConnectFrame(pc) == [fn |-> "connect", pc |-> pc]

SaveUserFrame(pc) == [fn |-> "save_user", pc |-> pc]

RemoveUserFrame(pc) == [fn |-> "remove_user", pc |-> pc]

\* disconnect(websocket): room, user, name are its locals once it has read connection_info
DisconnectFrame(ws) == [fn |-> "disconnect", pc |-> "begin", ws |-> ws,
                        room |-> "", user |-> "", name |-> <<>>]

HandleMsgFrame(data) == [fn |-> "handle_msg", pc |-> "validate", data |-> data, msg |-> <<>>]

\* broadcast_to_dashboard(dashboard_id, message, exclude_user_id): it is the
\* items() iterator, cur the websocket the awaited send was issued to, ok
\* whether that send wrote the frame, failed the list disconnected_users.  The
\* other fields record the call's history:
\* seq (the number of this call among all broadcast calls, in the order they
\* were issued), snap (the
\* websockets the room's dict held when the call began), snapExcl (those of
\* snap under the excluded user id), snapClosed (those of snap whose transport
\* was already closed), att (the websockets a send was issued to) and missed
\* (set when the loop ends: the websockets of snap still in the dict, not
\* excluded, that no send was issued to).
BcastFrame(room, ev, excl) ==
    [fn |-> "bcast", pc |-> "begin", room |-> room, ev |-> ev, excl |-> excl,
     it |-> NewIter(<<>>), cur |-> NoHandle, ok |-> FALSE, failed |-> <<>>,
     seq |-> 0, snap |-> {}, snapExcl |-> {}, snapClosed |-> {}, att |-> {},
     missed |-> {}]

\* ------------------------------------------------------------------ outbound events
UserJoined(name) == [type |-> "user_joined", username |-> name]

UserLeft(name) == [type |-> "user_left", username |-> name]

Typing(user, name, flag) ==
    [type |-> "typing", user_id |-> user, username |-> name, is_typing |-> flag]

\* ------------------------------------------------------------------ Redis commands
\* a faulty HSET that overwrites the fields of an existing hash and never
\* creates one
RedisHsetExisting(h, key, fields) ==
    IF key \in DOMAIN h THEN [h EXCEPT ![key] = fields @@ @] ELSE h

\* HSET key mapping: creates the hash or overwrites the given fields; the
\* fields not given and the key's expiry are kept.
RedisHset(h, key, fields) ==
    IF key \in DOMAIN h THEN [h EXCEPT ![key] = fields @@ @]
    ELSE [x \in DOMAIN h \cup {key} |-> IF x = key THEN fields @@ [ttl |-> FALSE] ELSE h[x]]

\* EXPIRE key seconds: sets the expiry of an existing key, no-op otherwise
RedisExpire(h, key) ==
    IF key \in DOMAIN h THEN [h EXCEPT ![key].ttl = TRUE] ELSE h

\* LRANGE key start stop: the elements at the zero-based positions start..stop;
\* a negative position counts from the tail (-1 is the last element)
RedisLrange(l, start, stop) ==
    LET from == IF start >= 0 THEN start ELSE IF Len(l) + start >= 0 THEN Len(l) + start ELSE 0
        to == IF stop < 0 THEN Len(l) + stop ELSE IF stop < Len(l) THEN stop ELSE Len(l) - 1
    IN  IF from > to THEN <<>> ELSE SubSeq(l, from + 1, to + 1)

\* DEL key
\* a faulty DEL that removes nothing
RedisDelNothing(h, key) == h

RedisDel(h, key) == [x \in DOMAIN h \ {key} |-> h[x]]

\* a faulty list that reports every member of the set, its hash stored or not
ListEveryMember(room) ==
    {[user_id |-> u, dashboard_id |-> room,
      username |-> IF <<room, u>> \in DOMAIN userHash THEN userHash[<<room, u>>].username
                   ELSE <<>>,
      status |-> "online"] : u \in userSet[room]}

\* get_connected_users_from_redis, lines 80-99: the members of
\* connected_users:{room} (SMEMBERS, in no order) whose hash user:{room}:{id}
\* is not empty and parses as a ConnectedUser (username present, status one
\* of the UserStatus values); the others are skipped
get_connected_users_from_redis(room) ==
    {[user_id |-> u, dashboard_id |-> room, username |-> userHash[<<room, u>>].username,
      status |-> userHash[<<room, u>>].status] :
        u \in {x \in userSet[room] :
                 /\ <<room, x>> \in DOMAIN userHash
                 /\ "username" \in DOMAIN userHash[<<room, x>>]
                 /\ "status" \in DOMAIN userHash[<<room, x>>]
                 /\ userHash[<<room, x>>].status \in {"online", "offline", "away"}}}

\* ------------------------------------------------------------------ registry
\* a faulty connect: the room's dict is created anew on every call (the test of
\* line 22 lost)
RegistrySetFresh(ac, room, user, ws) ==
    [r \in DOMAIN ac \cup {room} |-> IF r = room THEN DictSet(<<>>, user, ws) ELSE ac[r]]

\* connect, lines 22-31: the room's dict is created when missing, the websocket
\* is stored under the user id (replacing what was there) and described in
\* connection_info.
RegistrySet(ac, room, user, ws) ==
    IF room \notin DOMAIN ac
    THEN [r \in DOMAIN ac \cup {room} |->
            IF r = room THEN DictSet(<<>>, user, ws) ELSE ac[r]]
    ELSE [ac EXCEPT ![room] = DictSet(@, user, ws)]

InfoSet(ci, room, user, name, ws) ==
    [w \in DOMAIN ci \cup {ws} |->
        IF w = ws THEN [dashboard_id |-> room, user_id |-> user, username |-> name]
        ELSE ci[w]]

\* a removal that keeps the room's dict when its last entry is deleted
RegistryRemoveKeepRoom(ac, room, user) ==
    IF room \in DOMAIN ac /\ DictHas(ac[room], user)
    THEN [ac EXCEPT ![room] = DictDel(@, user)]
    ELSE ac

\* a faulty removal that leaves active_connections as it is
RegistryKeep(ac, room, user) == ac

\* disconnect, lines 78-84: the entry under the user id is deleted, whichever
\* websocket it holds, and a room left empty is dropped.
RegistryRemove(ac, room, user) ==
    IF room \in DOMAIN ac
    THEN LET d == IF DictHas(ac[room], user) THEN DictDel(ac[room], user) ELSE ac[room]
         IN  IF DictUsed(d) = 0 THEN [r \in DOMAIN ac \ {room} |-> ac[r]]
             ELSE [ac EXCEPT ![room] = d]
    ELSE ac

\* a removal that leaves the websocket's entry in connection_info
InfoKeep(ci, ws) == ci

InfoRemove(ci, ws) == [w \in DOMAIN ci \ {ws} |-> ci[w]]

\* The iterators of the broadcasts in progress over a room's dict go stale when
\* the dict is dropped from active_connections: the dict they hold is empty.
MarkStale(st, dropped) ==
    [t \in Tasks |->
        [i \in 1..Len(st[t]) |->
            IF /\ st[t][i].fn = "bcast"
               /\ st[t][i].pc \in {"next", "send"}
               /\ st[t][i].room \in dropped
            THEN [st[t][i] EXCEPT !.it.stale = TRUE]
            ELSE st[t][i]]]

\* get_connected_users(dashboard_id)
get_connected_users(room) ==
    IF room \notin DOMAIN active_connections THEN {}
    ELSE DictKeys(active_connections[room])

\* ------------------------------------------------------------------ Init
Init ==
    /\ active_connections = [r \in {} |-> <<>>]
    /\ connection_info = [w \in {} |-> <<>>]
    /\ stack = [t \in Tasks |-> <<>>]
    /\ exc = [t \in Tasks |-> "none"]
    /\ req = [h \in Handles |-> NoReq]
    /\ transport = [h \in Handles |-> "none"]
    /\ closeCode = [h \in Handles |-> 0]
    /\ inbox = [h \in Handles |-> <<>>]
    /\ framesIn = 0
    /\ userHash = [k \in {} |-> <<>>]
    /\ userSet = [r \in Rooms |-> {}]
    /\ msgHash = [k \in {} |-> <<>>]
    /\ msgList = [r \in Rooms |-> <<>>]
    /\ nextId = 0
    /\ lastOp = [k \in Rooms \X Users |-> "none"]
    /\ regOrder = <<>>
    /\ sendq = [h \in Handles |-> <<>>]
    /\ issued = 0
    /\ got = <<>>
    /\ created = <<>>
    /\ leftCalls = <<>>
    /\ faults = <<>>
    /\ history_limit = message_history_limit
    /\ roomHash = [r \in {} |-> <<>>]
    /\ pushed = [r \in Rooms |-> <<>>]
    /\ responses = <<>>
    /\ expired = {}

\* ------------------------------------------------------------------ clients
\* Room ids and user ids are opaque strings: a request names an id an earlier
\* request named, or the first id no request has named yet.
RoomOrder == <<"d1", "d2">>
UserOrder == <<"A", "B", "C", "D">>

FreshOrFirst(x, order, seen) ==
    \/ x \in seen
    \/ \E i \in 1..Len(order) :
          /\ order[i] = x
          /\ \A j \in 1..(i - 1) : order[j] \in seen

\* a check of the ids that accepts every request
ValidIdsAlways(room, user) == TRUE

\* websocket_endpoint, line 125: `if not dashboard_id or not user_id`
ValidIds(room, user) == room # "" /\ user # ""

\* A client opens /chat/ws/{room}?user_id={user}&username=...; websocket_endpoint
\* (lines 123-130) checks the ids and calls connection_manager.connect, which
\* awaits websocket.accept().  Handles are numbered in the order of arrival.
\* The user id of a request may be the empty string (?user_id=); the room id
\* is a path segment, which the route matches only when it is not empty.
Open(h, room, user) ==
    /\ Quiet
    /\ h <= MaxOpen
    /\ req[h] = NoReq
    /\ \A g \in Handles : g < h => req[g] # NoReq
    /\ FreshOrFirst(room, RoomOrder, {req[g].room : g \in Handles})
    /\ user = "" \/ FreshOrFirst(user, UserOrder, {req[g].user : g \in Handles})
    /\ req' = [req EXCEPT ![h] = [room |-> room, user |-> user, name |-> UsernameOf(h)]]
    /\ transport' = [transport EXCEPT ![h] = "pending"]
    /\ stack' = [stack EXCEPT ![h] =
                   IF ~ValidIds(room, user)
                   THEN <<[fn |-> "endpoint", pc |-> "close", code |-> 4000]>>
                   ELSE <<EndpointFrame("ret_connect"), ConnectFrame("accept")>>]
    /\ UNCHANGED <<registryVars, storeVars, exc, closeCode, inbox, framesIn, sendq,
                   nextId, issued, histVars, restVars>>

\* The client closes its side of an accepted connection.
ClientClose(h) ==
    /\ Quiet
    /\ transport[h] = "open"
    /\ transport' = [transport EXCEPT ![h] = "peer_closed"]
    /\ UNCHANGED <<registryVars, storeVars, stack, exc, req, closeCode, inbox,
                   framesIn, sendq, nextId, issued, histVars, restVars>>

\* websocket_endpoint, lines 126-127: websocket.close(code=4000) on a request
\* that was not accepted, and the handler returns
EndpointReject(t) ==
    /\ Resume(t, "endpoint", "close")
    /\ closeCode' = [closeCode EXCEPT ![t] = Top(t).code]
    /\ transport' = [transport EXCEPT ![t] = "svc_closed"]
    /\ stack' = [stack EXCEPT ![t] = <<>>]
    /\ UNCHANGED <<registryVars, storeVars, exc, req, inbox, framesIn, sendq, nextId, issued,
                   histVars, restVars>>

\* ------------------------------------------------------------------ connect
\* connect, lines 19-31: accept() returns and the registry is updated before
\* the next await (redis.hset).
ConnectAccept(t) ==
    /\ Resume(t, "connect", "accept")
    /\ transport' = [transport EXCEPT ![t] = "open"]
    /\ active_connections' = RegistrySet(active_connections, req[t].room, req[t].user, t)
    /\ connection_info' = InfoSet(connection_info, req[t].room, req[t].user, req[t].name, t)
    /\ lastOp' = [lastOp EXCEPT ![<<req[t].room, req[t].user>>] = "register"]
    /\ regOrder' = Append(regOrder, t)
    /\ stack' = [stack EXCEPT ![t] = SetTop(@, ConnectFrame("hset"))]
    /\ UNCHANGED <<storeVars, exc, req, closeCode, inbox, framesIn, sendq, nextId, issued, histVars, restVars>>

\* connect, lines 47-50: redis.hset(user_key, mapping=connected_user.to_dict())
\* with socket_id = str(id(websocket))
ConnectHset(t) ==
    /\ Resume(t, "connect", "hset")
    /\ userHash' = RedisHset(userHash, <<req[t].room, req[t].user>>,
                             [username |-> req[t].name, status |-> "online", socket_id |-> t])
    /\ stack' = [stack EXCEPT ![t] = SetTop(@, ConnectFrame("sadd"))]
    /\ UNCHANGED <<registryVars, clientVars, exc, userSet, msgHash, msgList, nextId, issued, histVars, restVars>>

\* connect, lines 53-54: redis.sadd("connected_users:{room}", user_id)
ConnectSadd(t) ==
    /\ Resume(t, "connect", "sadd")
    /\ userSet' = [userSet EXCEPT ![req[t].room] = @ \cup {req[t].user}]
    /\ stack' = [stack EXCEPT ![t] = SetTop(@, ConnectFrame("expire"))]
    /\ UNCHANGED <<registryVars, clientVars, exc, userHash, msgHash, msgList, nextId, issued, histVars, restVars>>

\* connect, lines 57-62: redis.expire(user_key, 3600), then
\* broadcast_user_joined(dashboard_id, username)
ConnectExpire(t) ==
    /\ Resume(t, "connect", "expire")
    /\ userHash' = RedisExpire(userHash, <<req[t].room, req[t].user>>)
    /\ stack' = [stack EXCEPT ![t] =
                   Call(@, ConnectFrame("ret_join"),
                        BcastFrame(req[t].room, UserJoined(req[t].name), ""))]
    /\ UNCHANGED <<registryVars, clientVars, exc, userSet, msgHash, msgList, nextId, issued, histVars, restVars>>

\* connect returns (line 62 done, or line 64 after an exception was caught)
ConnectReturn(t) ==
    /\ At(t, "connect", "ret_join")
    /\ stack' = [stack EXCEPT ![t] = Pop(@)]
    /\ UNCHANGED <<registryVars, storeVars, clientVars, exc, nextId, issued, histVars, restVars>>

\* ------------------------------------------------------------------ broadcast_to_dashboard
\* lines 117-123: return when the room has no dict, else take the room's dict
\* itself (connections = self.active_connections[dashboard_id], no copy) and
\* start iterating connections.items()
BcastBegin(t) ==
    /\ At(t, "bcast", "begin")
    /\ LET f == Top(t) IN
       IF f.room \notin DOMAIN active_connections
       THEN stack' = [stack EXCEPT ![t] = Pop(@)]
       ELSE LET d == active_connections[f.room] IN
            stack' = [stack EXCEPT ![t] = SetTop(@,
                         [f EXCEPT !.pc = "next", !.it = NewIter(d),
                                   !.seq = issued + 1,
                                   !.snap = DictValues(d),
                                   !.snapExcl = {d[i].v : i \in {j \in DictLive(d) :
                                                     f.excl # "" /\ d[j].k = f.excl}},
                                   !.snapClosed = {h \in DictValues(d) :
                                                     transport[h] # "open"}])]
    /\ issued' = issued + 1
    /\ UNCHANGED <<registryVars, storeVars, clientVars, exc, nextId, histVars, restVars>>

\* an iterator that reads the dict of some room, whichever the broadcast's
IterDictAny(f) ==
    IF f.it.stale THEN <<>>
    ELSE active_connections[CHOOSE r \in DOMAIN active_connections : r # f.room \/ DOMAIN active_connections = {f.room}]

\* the dict a broadcast's iterator reads
IterDict(f) == IF f.it.stale THEN <<>> ELSE active_connections[f.room]

\* the for loop is over (line 133 is next)
LoopEnd(f) ==
    [f EXCEPT !.pc = "cleanup", !.cur = NoHandle,
              !.missed = ((f.snap \ f.snapExcl) \ f.att) \cap DictValues(IterDict(f))]

\* a faulty transport: the client's newest frame overtakes the earlier ones
DeliverFront(box, m) == <<m>> \o box

\* websocket.send_text writes the frame when it is called: the frames sent on
\* one websocket reach its client in the order of the calls
Deliver(box, m) == Append(box, m)

\* lines 123-128: the for statement fetches the next item (RuntimeError when
\* the dict changed under the iterator), skips the excluded user and calls
\* websocket.send_text(message), which writes the frame if the transport is
\* open; the call is awaited
BcastNext(t) ==
    /\ At(t, "bcast", "next")
    /\ LET f == Top(t)
           r == IterNext(IterDict(f), f.it)
           sends == r.res = "item" /\ ~(f.excl # "" /\ r.k = f.excl)
           open == sends /\ transport[r.v] = "open"
       IN  /\ exc' = [exc EXCEPT ![t] = IF r.res = "error" THEN "RuntimeError" ELSE "none"]
           /\ stack' = [stack EXCEPT ![t] = SetTop(@,
                 IF r.res = "error" THEN f
                 ELSE IF r.res = "stop" THEN LoopEnd(f)
                 ELSE IF ~sends THEN [f EXCEPT !.it = r.it]
                 ELSE [f EXCEPT !.it = r.it, !.cur = r.v, !.ok = open, !.pc = "send",
                                !.att = @ \cup {r.v}])]
           /\ inbox' = IF open
                       THEN [inbox EXCEPT ![r.v] =
                                Deliver(@, [ev |-> f.ev, room |-> f.room, by |-> t, seq |-> f.seq])]
                       ELSE inbox
           /\ sendq' = IF sends THEN [sendq EXCEPT ![r.v] = Append(@, t)] ELSE sendq
    /\ UNCHANGED <<registryVars, storeVars, req, transport, closeCode, framesIn, nextId, issued, histVars, restVars>>

\* line 128 succeeded: on to the next item
OnSendOk(f) == [f EXCEPT !.pc = "next", !.cur = NoHandle]

\* lines 129-131: the send raised; the websocket is queued for cleanup and the
\* loop goes on
OnSendError(f) == [f EXCEPT !.pc = "next", !.cur = NoHandle, !.failed = Append(@, f.cur)]

\* line 128: the awaited send_text returns, or raises when the transport was
\* not open; the calls awaited on one websocket complete in the order they
\* were made
BcastSend(t) ==
    /\ Resume(t, "bcast", "send")
    /\ LET f == Top(t) IN
       /\ Head(sendq[f.cur]) = t
       /\ sendq' = [sendq EXCEPT ![f.cur] = Tail(@)]
       /\ stack' = [stack EXCEPT ![t] =
                       SetTop(@, IF f.ok THEN OnSendOk(f) ELSE OnSendError(f))]
    /\ UNCHANGED <<registryVars, storeVars, req, transport, closeCode, inbox, framesIn,
                   exc, nextId, issued, histVars, restVars>>

\* lines 133-135: disconnect() for each websocket whose send failed, then return
BcastCleanup(t) ==
    /\ At(t, "bcast", "cleanup")
    /\ LET f == Top(t) IN
       stack' = [stack EXCEPT ![t] =
                   IF f.failed = <<>> THEN Pop(@)
                   ELSE Call(@, [f EXCEPT !.failed = Tail(@)], DisconnectFrame(Head(f.failed)))]
    /\ UNCHANGED <<registryVars, storeVars, clientVars, exc, nextId, issued, histVars, restVars>>

\* ------------------------------------------------------------------ disconnect
\* a faulty disconnect that goes to its store calls with both maps untouched
DisconnectBeginStoreFirst(t) ==
    /\ At(t, "disconnect", "begin")
    /\ LET f == Top(t) IN
       IF f.ws \notin DOMAIN connection_info
       THEN stack' = [stack EXCEPT ![t] = Pop(@)]
       ELSE LET d == connection_info[f.ws]
            IN  stack' = [stack EXCEPT ![t] =
                            SetTop(@, [f EXCEPT !.pc = "del", !.room = d.dashboard_id,
                                                !.user = d.user_id, !.name = d.username])]
    /\ UNCHANGED <<registryVars, storeVars, clientVars, exc, nextId, issued, histVars, restVars>>

\* lines 69-86: nothing to do for a websocket connection_info does not know;
\* otherwise both maps are updated before the next await (redis.delete)
DisconnectBegin(t) ==
    /\ At(t, "disconnect", "begin")
    /\ LET f == Top(t) IN
       IF f.ws \notin DOMAIN connection_info
       THEN /\ stack' = [stack EXCEPT ![t] = Pop(@)]
            /\ UNCHANGED registryVars
       ELSE LET d == connection_info[f.ws]
                ac == RegistryRemove(active_connections, d.dashboard_id, d.user_id)
                g == [f EXCEPT !.pc = "del", !.room = d.dashboard_id,
                               !.user = d.user_id, !.name = d.username]
            IN  /\ active_connections' = ac
                /\ connection_info' = InfoRemove(connection_info, f.ws)
                /\ lastOp' = [lastOp EXCEPT ![<<d.dashboard_id, d.user_id>>] = "unregister"]
                /\ UNCHANGED regOrder
                /\ stack' = MarkStale([stack EXCEPT ![t] = SetTop(@, g)],
                                      DOMAIN active_connections \ DOMAIN ac)
    /\ UNCHANGED <<storeVars, clientVars, exc, nextId, issued, histVars, restVars>>

\* lines 93-94: redis.delete("user:{room}:{user}")
DisconnectDel(t) ==
    /\ Resume(t, "disconnect", "del")
    /\ userHash' = RedisDel(userHash, <<Top(t).room, Top(t).user>>)
    /\ stack' = [stack EXCEPT ![t] = SetTop(@, [Top(t) EXCEPT !.pc = "srem"])]
    /\ UNCHANGED <<registryVars, clientVars, exc, userSet, msgHash, msgList, nextId, issued, histVars, restVars>>

\* lines 97-103: redis.srem("connected_users:{room}", user), then
\* broadcast_user_left(dashboard_id, username)
DisconnectSrem(t) ==
    /\ Resume(t, "disconnect", "srem")
    /\ userSet' = [userSet EXCEPT ![Top(t).room] = @ \ {Top(t).user}]
    /\ stack' = [stack EXCEPT ![t] =
                   Call(@, [Top(t) EXCEPT !.pc = "ret_left"],
                        BcastFrame(Top(t).room, UserLeft(Top(t).name), ""))]
    /\ leftCalls' = Append(leftCalls, [ws |-> Top(t).ws, by |-> t])
    /\ UNCHANGED <<registryVars, clientVars, exc, userHash, msgHash, msgList, nextId, issued,
                   got, created, faults, restVars>>

\* disconnect returns (line 103 done, or line 105 after an exception was caught)
DisconnectReturn(t) ==
    /\ At(t, "disconnect", "ret_left")
    /\ stack' = [stack EXCEPT ![t] = Pop(@)]
    /\ UNCHANGED <<registryVars, storeVars, clientVars, exc, nextId, issued, histVars, restVars>>

\* ------------------------------------------------------------------ presence helpers
\* websocket_endpoint, lines 133-139: save_connected_user_to_redis(connected_user)
EndpointSaveUser(t) ==
    /\ At(t, "endpoint", "ret_connect")
    /\ stack' = [stack EXCEPT ![t] = Call(@, EndpointFrame("ret_save"), SaveUserFrame("hset"))]
    /\ UNCHANGED <<registryVars, storeVars, clientVars, exc, nextId, issued, histVars, restVars>>

\* save_connected_user_to_redis, lines 70-71 (the ConnectedUser has no socket_id)
SaveUserHset(t) ==
    /\ Resume(t, "save_user", "hset")
    /\ userHash' = RedisHset(userHash, <<req[t].room, req[t].user>>,
                             [username |-> req[t].name, status |-> "online"])
    /\ stack' = [stack EXCEPT ![t] = SetTop(@, SaveUserFrame("sadd"))]
    /\ UNCHANGED <<registryVars, clientVars, exc, userSet, msgHash, msgList, nextId, issued, histVars, restVars>>

\* save_connected_user_to_redis, lines 74-75
SaveUserSadd(t) ==
    /\ Resume(t, "save_user", "sadd")
    /\ userSet' = [userSet EXCEPT ![req[t].room] = @ \cup {req[t].user}]
    /\ stack' = [stack EXCEPT ![t] = SetTop(@, SaveUserFrame("expire"))]
    /\ UNCHANGED <<registryVars, clientVars, exc, userHash, msgHash, msgList, nextId, issued, histVars, restVars>>

\* save_connected_user_to_redis, line 78, and return
SaveUserExpire(t) ==
    /\ Resume(t, "save_user", "expire")
    /\ userHash' = RedisExpire(userHash, <<req[t].room, req[t].user>>)
    /\ stack' = [stack EXCEPT ![t] = Pop(@)]
    /\ UNCHANGED <<registryVars, clientVars, exc, userSet, msgHash, msgList, nextId, issued, histVars, restVars>>

\* websocket_endpoint, lines 141-144: enter the loop and await receive_text()
EndpointLoop(t) ==
    /\ At(t, "endpoint", "ret_save")
    /\ stack' = [stack EXCEPT ![t] = SetTop(@, EndpointFrame("recv"))]
    /\ UNCHANGED <<registryVars, storeVars, clientVars, exc, nextId, issued, histVars, restVars>>

\* remove_user_from_redis, lines 106-107
RemoveUserDel(t) ==
    /\ Resume(t, "remove_user", "del")
    /\ userHash' = RedisDel(userHash, <<req[t].room, req[t].user>>)
    /\ stack' = [stack EXCEPT ![t] = SetTop(@, RemoveUserFrame("srem"))]
    /\ UNCHANGED <<registryVars, clientVars, exc, userSet, msgHash, msgList, nextId, issued, histVars, restVars>>

\* remove_user_from_redis, lines 110-111, and return
RemoveUserSrem(t) ==
    /\ Resume(t, "remove_user", "srem")
    /\ userSet' = [userSet EXCEPT ![req[t].room] = @ \ {req[t].user}]
    /\ stack' = [stack EXCEPT ![t] = Pop(@)]
    /\ UNCHANGED <<registryVars, clientVars, exc, userHash, msgHash, msgList, nextId, issued, histVars, restVars>>

\* ------------------------------------------------------------------ inbound frames
\* A text is a sequence of characters; a parsed JSON object is a record whose
\* DOMAIN holds the keys that are present.
Whitespace == {" ", "\t", "\n"}

RECURSIVE LStrip(_)
LStrip(s) == IF s # <<>> /\ Head(s) \in Whitespace THEN LStrip(Tail(s)) ELSE s

RECURSIVE RStrip(_)
RStrip(s) == IF s # <<>> /\ s[Len(s)] \in Whitespace THEN RStrip(SubSeq(s, 1, Len(s) - 1)) ELSE s

\* a strip that removes nothing
StripNothing(s) == s

\* str.strip()
Strip(s) == RStrip(LStrip(s))

\* dict.get(key, default)
Get(d, key, default) == IF key \in DOMAIN d THEN d[key] ELSE default

EmptyObj == <<>>
None == "None"

\* str(uuid.uuid4()) of the n-th ChatMessage created
Uuid(n) == <<"m1", "m2", "m3", "m4", "m5", "m6", "m7", "m8">>[n]

\* an enumeration that also takes the value "video"
MessageTypeWithVideo == {"text", "image", "file", "system", "video"}

MessageType == {"text", "image", "file", "system"}

ChatFrame(data) == [type |-> "chat_message", data |-> data]

TypingFrame(data) == [type |-> "typing", data |-> data]

\* a text frame: the serialisation of a JSON object, of a JSON array, or a
\* text that is not JSON
JsonObject(o) == [json |-> "object", value |-> o]

\* a text of max_message_length + 1 characters
TooLong == [i \in 1..(max_message_length + 1) |-> "x"]

\* the chat_message frames whose content is empty after trimming or too long
BadContentFrames ==
    { JsonObject(ChatFrame([content |-> <<" ", "\t">>])),
      JsonObject(ChatFrame(EmptyObj)),
      JsonObject(ChatFrame([content |-> TooLong])) }

\* the frames that are a JSON object whose type is missing or unknown
UnknownTypeFrames ==
    { JsonObject([type |-> "ping", data |-> [content |-> <<"h", "i">>]]),
      JsonObject([data |-> [is_typing |-> TRUE]]) }

\* the frames json.loads rejects, or parses to something that is not an object
UnparseableFrames == {[json |-> "invalid", value |-> <<>>], [json |-> "array", value |-> <<>>]}

\* the frames a client sends in the runs of SpecChat
Frames ==
    BadContentFrames \cup UnknownTypeFrames \cup UnparseableFrames
    \cup { JsonObject(ChatFrame([content |-> <<" ", "h", "i">>])),
           JsonObject(ChatFrame([message |-> <<"y", "o", "\n">>, message_type |-> "image",
                                 reply_to |-> "m0"])),
           JsonObject(ChatFrame([content |-> <<"h", "i">>, message_type |-> "video"])),
           JsonObject(TypingFrame([is_typing |-> TRUE])),
           JsonObject(TypingFrame(EmptyObj)) }

\* json.loads(data) followed by message_data.get: JSONDecodeError for a text
\* that is not JSON, AttributeError for a value that has no get
LoadError(text) ==
    IF text.json = "invalid" THEN "JSONDecodeError"
    ELSE IF text.json # "object" THEN "AttributeError"
    ELSE "none"

\* dispatch on the type as an inbound frame is handled (lines 151, 171, 177)
DispatchAllToChat(type) == IF type = "typing" THEN "typing" ELSE "chat_message"

Dispatch(type) ==
    IF type = "chat_message" THEN "chat_message"
    ELSE IF type = "typing" THEN "typing"
    ELSE "unknown"

\* a to_dict that leaves reply_to out
ToDictNoReply(m) ==
    [id |-> m.id, dashboard_id |-> m.dashboard_id, user_id |-> m.user_id,
     username |-> m.username, content |-> m.content,
     message_type |-> m.message_type, is_deleted |-> "0"]

\* ChatMessage.to_dict(), models.py (timestamps left out)
to_dict(m) ==
    LET base == [id |-> m.id, dashboard_id |-> m.dashboard_id, user_id |-> m.user_id,
                 username |-> m.username, content |-> m.content,
                 message_type |-> m.message_type, is_deleted |-> "0"]
    IN  IF m.reply_to # None THEN base @@ [reply_to |-> m.reply_to] ELSE base

\* ChatMessage.from_dict(data), models.py lines 53-64, on the strings HGETALL
\* returns: is_deleted is compared with "1", message_type is converted to the
\* enum by the constructor, an absent reply_to is None
from_dict(d) ==
    [id |-> d.id, dashboard_id |-> d.dashboard_id, user_id |-> d.user_id,
     username |-> d.username, content |-> d.content, message_type |-> d.message_type,
     is_deleted |-> (d.is_deleted = "1"), reply_to |-> Get(d, "reply_to", None)]

\* get_messages_from_redis(dashboard_id, limit, skip), lines 44-63:
\* LRANGE messages:{room} skip skip+limit-1, then HGETALL of each id; an id
\* whose hash is gone, or whose hash the constructor rejects, is skipped
get_messages_from_redis(room, limit, skip) ==
    LET ids == RedisLrange(msgList[room], skip, skip + limit - 1)
        found == SelectSeq(ids, LAMBDA id :
                     /\ <<room, id>> \in DOMAIN msgHash
                     /\ msgHash[<<room, id>>].message_type \in MessageType)
    IN  [i \in 1..Len(found) |-> from_dict(msgHash[<<room, found[i]>>])]

\* broadcast_message, lines 140-153: the chat_message event
ChatEvent(m) ==
    LET base == [type |-> "chat_message", id |-> m.id, dashboard_id |-> m.dashboard_id,
                 user_id |-> m.user_id, username |-> m.username, content |-> m.content,
                 message_type |-> m.message_type]
    IN  IF m.reply_to # None THEN base @@ [reply_to |-> m.reply_to] ELSE base

\* websocket_endpoint, lines 144-180: one frame is received and dispatched on
\* its type
RecvFrame(t, text) ==
    /\ Resume(t, "endpoint", "recv")
    /\ transport[t] = "open"
    /\ framesIn < MaxFrames
    /\ framesIn' = framesIn + 1
    /\ got' = Append(got, [by |-> t, text |-> text])
    /\ exc' = [exc EXCEPT ![t] = LoadError(text)]
    /\ LET fr == text.value
           to == Dispatch(Get(fr, "type", None))
           data == Get(fr, "data", EmptyObj)
       IN  stack' = [stack EXCEPT ![t] =
             IF LoadError(text) # "none" THEN @
             ELSE IF to = "chat_message"
             THEN Call(@, EndpointFrame("recv"), HandleMsgFrame(data))
             ELSE IF to = "typing"
             THEN Call(@, EndpointFrame("recv"),
                       BcastFrame(req[t].room,
                                  Typing(req[t].user, req[t].name, Get(data, "is_typing", FALSE)),
                                  req[t].user))
             ELSE @]
    /\ UNCHANGED <<registryVars, storeVars, req, transport, closeCode, inbox, sendq,
                   nextId, issued, created, leftCalls, faults, restVars>>

\* lines 144, 182-183: receive_text() raises WebSocketDisconnect;
\* connection_manager.disconnect(websocket) is called
RecvDisconnect(t) ==
    /\ Resume(t, "endpoint", "recv")
    /\ transport[t] # "open"
    /\ stack' = [stack EXCEPT ![t] = Call(@, EndpointFrame("ret_disc"), DisconnectFrame(t))]
    /\ UNCHANGED <<registryVars, storeVars, clientVars, exc, nextId, issued, histVars, restVars>>

\* lines 184, 188: remove_user_from_redis(dashboard_id, user_id)
EndpointRemoveUser(t) ==
    /\ At(t, "endpoint", "ret_disc")
    /\ stack' = [stack EXCEPT ![t] = Call(@, EndpointFrame("ret_remove"), RemoveUserFrame("del"))]
    /\ UNCHANGED <<registryVars, storeVars, clientVars, exc, nextId, issued, histVars, restVars>>

\* the handler task ends
EndpointEnd(t) ==
    /\ At(t, "endpoint", "ret_remove")
    /\ stack' = [stack EXCEPT ![t] = <<>>]
    /\ UNCHANGED <<registryVars, storeVars, clientVars, exc, nextId, issued, histVars, restVars>>

\* ------------------------------------------------------------------ chat messages
\* handle_websocket_message, lines 204-223: content (or the legacy "message"
\* key) is trimmed and checked, message_type is converted to the enum
\* (ValueError for an unknown value, caught at line 228), the ChatMessage is
\* built and save_message_to_redis is called
RawContent(data) ==
    IF Get(data, "content", <<>>) # <<>> THEN data.content ELSE Get(data, "message", <<>>)

HandleValidate(t) ==
    /\ At(t, "handle_msg", "validate")
    /\ LET data == Top(t).data
           content == Strip(RawContent(data))
           mtype == Get(data, "message_type", "text")
           valid == /\ content # <<>>
                    /\ Len(content) <= max_message_length
                    /\ mtype \in MessageType
           m == [id |-> Uuid(nextId + 1), dashboard_id |-> req[t].room,
                 user_id |-> req[t].user, username |-> req[t].name,
                 content |-> content, message_type |-> mtype,
                 reply_to |-> Get(data, "reply_to", None)]
       IN  IF valid
           THEN /\ nextId' = nextId + 1
                /\ created' = Append(created, m)
                /\ stack' = [stack EXCEPT ![t] =
                       Call(@, [Top(t) EXCEPT !.pc = "ret_save", !.msg = m],
                            [fn |-> "save_message", pc |-> "hset", msg |-> m])]
           ELSE /\ nextId' = nextId
                /\ created' = created
                /\ stack' = [stack EXCEPT ![t] = Pop(@)]
    /\ UNCHANGED <<registryVars, storeVars, clientVars, exc, issued, got, leftCalls, faults,
                   restVars>>

\* save_message_to_redis, lines 29-32: redis.hset(key, mapping=message.to_dict())
SaveMessageHset(t) ==
    /\ Resume(t, "save_message", "hset")
    /\ LET m == Top(t).msg IN
       msgHash' = RedisHset(msgHash, <<m.dashboard_id, m.id>>, to_dict(m))
    /\ stack' = [stack EXCEPT ![t] = SetTop(@, [Top(t) EXCEPT !.pc = "rpush"])]
    /\ UNCHANGED <<registryVars, clientVars, exc, userHash, userSet, msgList, nextId, issued, histVars, restVars>>

\* save_message_to_redis, lines 35-36: redis.rpush("messages:{room}", message.id)
SaveMessageRpush(t) ==
    /\ Resume(t, "save_message", "rpush")
    /\ LET m == Top(t).msg IN
       /\ msgList' = [msgList EXCEPT ![m.dashboard_id] = Append(@, m.id)]
       /\ pushed' = [pushed EXCEPT ![m.dashboard_id] = Append(@, m.id)]
    /\ stack' = [stack EXCEPT ![t] = SetTop(@, [Top(t) EXCEPT !.pc = "ltrim"])]
    /\ UNCHANGED <<registryVars, clientVars, exc, userHash, userSet, msgHash, nextId, issued,
                   histVars, history_limit, roomHash, responses, expired>>

\* a trim that keeps the first n elements
LtrimFirst(l, n) == IF Len(l) <= n THEN l ELSE SubSeq(l, 1, n)

\* LTRIM key -n -1: keep the last n elements
LtrimLast(l, n) == IF Len(l) <= n THEN l ELSE SubSeq(l, Len(l) - n + 1, Len(l))

\* a faulty trim that also deletes the hashes of the ids it drops
SaveMessageLtrimPurge(t) ==
    /\ Resume(t, "save_message", "ltrim")
    /\ LET m == Top(t).msg
           kept == LtrimLast(msgList[m.dashboard_id], history_limit)
           dropped == {msgList[m.dashboard_id][i] : i \in 1..Len(msgList[m.dashboard_id])}
                        \ {kept[i] : i \in 1..Len(kept)}
       IN  /\ msgList' = [msgList EXCEPT ![m.dashboard_id] = kept]
           /\ msgHash' = [k \in DOMAIN msgHash \ {<<m.dashboard_id, id>> : id \in dropped} |->
                            msgHash[k]]
    /\ stack' = [stack EXCEPT ![t] = SetTop(@, [Top(t) EXCEPT !.pc = "expire"])]
    /\ UNCHANGED <<registryVars, clientVars, exc, userHash, userSet, nextId, issued, histVars,
                   restVars>>

\* save_message_to_redis, line 39
SaveMessageLtrim(t) ==
    /\ Resume(t, "save_message", "ltrim")
    /\ LET m == Top(t).msg IN
       msgList' = [msgList EXCEPT ![m.dashboard_id] = LtrimLast(@, history_limit)]
    /\ stack' = [stack EXCEPT ![t] = SetTop(@, [Top(t) EXCEPT !.pc = "expire"])]
    /\ UNCHANGED <<registryVars, clientVars, exc, userHash, userSet, msgHash, nextId, issued, histVars, restVars>>

\* save_message_to_redis, line 42, and return
SaveMessageExpire(t) ==
    /\ Resume(t, "save_message", "expire")
    /\ LET m == Top(t).msg IN
       msgHash' = RedisExpire(msgHash, <<m.dashboard_id, m.id>>)
    /\ stack' = [stack EXCEPT ![t] = Pop(@)]
    /\ UNCHANGED <<registryVars, clientVars, exc, userHash, userSet, msgList, nextId, issued, histVars, restVars>>

\* a faulty save_message_to_redis that logs the store's exception and returns
SaveMessageFaultLogged(t) ==
    /\ Resume(t, "save_message", Top(t).pc)
    /\ Len(faults) < MaxFaults
    /\ faults' = Append(faults, [by |-> t, id |-> Top(t).msg.id, at |-> Top(t).pc])
    /\ stack' = [stack EXCEPT ![t] = Pop(@)]
    /\ UNCHANGED <<registryVars, storeVars, clientVars, exc, nextId, issued,
                   got, created, leftCalls, restVars>>

\* save_message_to_redis, lines 26-42: the store command the task awaits (or
\* get_redis) raises; the command has no effect
SaveMessageFault(t) ==
    /\ Resume(t, "save_message", Top(t).pc)
    /\ Len(faults) < MaxFaults
    /\ faults' = Append(faults, [by |-> t, id |-> Top(t).msg.id, at |-> Top(t).pc])
    /\ exc' = [exc EXCEPT ![t] = "RedisError"]
    /\ UNCHANGED <<registryVars, storeVars, clientVars, stack, nextId, issued,
                   got, created, leftCalls, restVars>>

\* handle_websocket_message, line 226: connection_manager.broadcast_message,
\* which sends the chat_message event to the room with no exclusion
HandleBroadcast(t) ==
    /\ At(t, "handle_msg", "ret_save")
    /\ LET m == Top(t).msg IN
       stack' = [stack EXCEPT ![t] =
                   Call(@, [Top(t) EXCEPT !.pc = "ret_bcast"],
                        BcastFrame(m.dashboard_id, ChatEvent(m), ""))]
    /\ UNCHANGED <<registryVars, storeVars, clientVars, exc, nextId, issued, histVars, restVars>>

\* a faulty return that touches the sender's presence record (HSET of the
\* status and EXPIRE) after every handled chat message
HandleReturnTouch(t) ==
    /\ At(t, "handle_msg", "ret_bcast")
    /\ stack' = [stack EXCEPT ![t] = Pop(@)]
    /\ userHash' = RedisExpire(RedisHset(userHash, <<req[t].room, req[t].user>>,
                                         [username |-> req[t].name, status |-> "online"]),
                               <<req[t].room, req[t].user>>)
    /\ UNCHANGED <<registryVars, clientVars, exc, userSet, msgHash, msgList, nextId, issued,
                   histVars, restVars>>

\* handle_websocket_message returns
HandleReturn(t) ==
    /\ At(t, "handle_msg", "ret_bcast")
    /\ stack' = [stack EXCEPT ![t] = Pop(@)]
    /\ UNCHANGED <<registryVars, storeVars, clientVars, exc, nextId, issued, histVars, restVars>>

\* ------------------------------------------------------------------ exceptions
\* The try blocks that catch Exception and return normally: connect (lines
\* 34-65), disconnect (89-106), handle_websocket_message (202-229, which also
\* covers broadcast_message's own try, 139-163).
\* the try blocks left when a chat_message frame's exceptions are not caught
CatchesOutsideChat(f) ==
    \/ f.fn = "connect" /\ f.pc \in {"hset", "sadd", "expire", "ret_join"}
    \/ f.fn = "disconnect" /\ f.pc \in {"del", "srem", "ret_left"}

CatchesAndReturns(f) ==
    \/ f.fn = "connect" /\ f.pc \in {"hset", "sadd", "expire", "ret_join"}
    \/ f.fn = "disconnect" /\ f.pc \in {"del", "srem", "ret_left"}
    \/ f.fn = "handle_msg"

\* websocket_endpoint's inner try (lines 141-188) covers the receive loop
CatchesInLoop(f) == f.fn = "endpoint" /\ f.pc = "recv"

\* the exception leaves a frame that has no handler for it
Propagate(t) ==
    /\ stack[t] # <<>>
    /\ exc[t] # "none"
    /\ ~CatchesAndReturns(Top(t))
    /\ Top(t).fn # "endpoint"
    /\ stack' = [stack EXCEPT ![t] = Pop(@)]
    /\ UNCHANGED <<registryVars, storeVars, clientVars, exc, nextId, issued, histVars, restVars>>

\* the exception is logged and the function returns to its caller
CatchReturn(t) ==
    /\ stack[t] # <<>>
    /\ exc[t] # "none"
    /\ CatchesAndReturns(Top(t))
    /\ exc' = [exc EXCEPT ![t] = "none"]
    /\ stack' = [stack EXCEPT ![t] = Pop(@)]
    /\ UNCHANGED <<registryVars, storeVars, clientVars, nextId, issued, histVars, restVars>>

\* websocket_endpoint, lines 185-187: an exception in the loop ends the loop
\* with connection_manager.disconnect(websocket)
CatchInLoop(t) ==
    /\ stack[t] # <<>>
    /\ exc[t] # "none"
    /\ CatchesInLoop(Top(t))
    /\ exc' = [exc EXCEPT ![t] = "none"]
    /\ stack' = [stack EXCEPT ![t] = Call(@, EndpointFrame("ret_disc"), DisconnectFrame(t))]
    /\ UNCHANGED <<registryVars, storeVars, clientVars, nextId, issued, histVars, restVars>>

\* websocket_endpoint, lines 190-192: an exception raised outside the receive
\* loop's try (by save_connected_user_to_redis, line 139, or by the calls of
\* the loop's except clauses, lines 183-188) is logged and websocket.close()
\* is awaited; neither disconnect nor remove_user_from_redis is called
EndpointCatch(t) ==
    /\ stack[t] # <<>>
    /\ exc[t] # "none"
    /\ Top(t).fn = "endpoint"
    /\ ~CatchesInLoop(Top(t))
    /\ exc' = [exc EXCEPT ![t] = "none"]
    /\ stack' = [stack EXCEPT ![t] = SetTop(@, [fn |-> "endpoint", pc |-> "close", code |-> 1000])]
    /\ UNCHANGED <<registryVars, storeVars, clientVars, nextId, issued, histVars, restVars>>

\* the presence store command the task awaits raises (websocket_manager.py
\* lines 50-57 and 94-98, chat_routes.py lines 71-78 and 107-111); the command
\* has no effect
PresenceFault(t) ==
    /\ Quiet
    /\ stack[t] # <<>>
    /\ exc[t] = "none"
    /\ Top(t).fn \in {"connect", "save_user", "disconnect", "remove_user"}
    /\ Top(t).pc \in {"hset", "sadd", "expire", "del", "srem"}
    /\ Len(faults) < MaxFaults
    /\ faults' = Append(faults, [by |-> t, id |-> Top(t).fn, at |-> Top(t).pc])
    /\ exc' = [exc EXCEPT ![t] = "RedisError"]
    /\ UNCHANGED <<registryVars, storeVars, clientVars, stack, nextId, issued,
                   got, created, leftCalls, restVars>>

\* ------------------------------------------------------------------ specifications
ConnectStep(t) ==
    \/ ConnectAccept(t) \/ ConnectHset(t) \/ ConnectSadd(t) \/ ConnectExpire(t)
    \/ ConnectReturn(t) \/ EndpointReject(t)
    \/ EndpointSaveUser(t) \/ SaveUserHset(t) \/ SaveUserSadd(t) \/ SaveUserExpire(t)
    \/ EndpointLoop(t)

CloseStep(t) ==
    \/ RecvDisconnect(t) \/ EndpointRemoveUser(t)
    \/ RemoveUserDel(t) \/ RemoveUserSrem(t) \/ EndpointEnd(t)

BcastStep(t) ==
    \/ BcastBegin(t) \/ BcastNext(t) \/ BcastSend(t) \/ BcastCleanup(t)

DisconnectStep(t) ==
    \/ DisconnectBegin(t) \/ DisconnectDel(t) \/ DisconnectSrem(t) \/ DisconnectReturn(t)

RaiseStep(t) ==
    \/ Propagate(t) \/ CatchReturn(t)

ChatStep(t) ==
    \/ HandleValidate(t) \/ SaveMessageHset(t) \/ SaveMessageRpush(t)
    \/ SaveMessageLtrim(t) \/ SaveMessageExpire(t) \/ HandleBroadcast(t) \/ HandleReturn(t)
    \/ SaveMessageFault(t)
    \/ CatchInLoop(t)

\* Spec: connections are opened and closed; no inbound frame is sent.
Next ==
    \/ \E h \in Handles, room \in Rooms, user \in Users \cup {""} : Open(h, room, user)
    \/ \E h \in Handles : ClientClose(h)
    \/ \E t \in Tasks : ConnectStep(t)
    \/ \E t \in Tasks : CloseStep(t)
    \/ \E t \in Tasks : BcastStep(t)
    \/ \E t \in Tasks : DisconnectStep(t)
    \/ \E t \in Tasks : RaiseStep(t)

Spec == Init /\ [][Next]_vars

\* SpecChat: established connections; the clients send frames and close
\* connections.  In its first state every websocket h is connected as user
\* UserOrder[h], the last one to room d1 or d2 and the others to room d1; the
\* connections were made one after the other (each client has received the
\* user_joined events of its room's later connections and its own) and every
\* handler awaits a frame (line 144).
InitChat ==
    \E last \in Rooms :
      LET roomOf == [h \in Handles |-> IF h = NumHandles THEN last ELSE "d1"]
          InRoom(r) == {h \in Handles : roomOf[h] = r}
          Joined(h) == [ev |-> UserJoined(UsernameOf(h)), room |-> roomOf[h],
                        by |-> h, seq |-> h]
      IN
        /\ active_connections =
              [r \in {roomOf[h] : h \in Handles} |->
                  SelectSeq([h \in Handles |-> [k |-> UserOrder[h], v |-> h]],
                            LAMBDA e : e.v \in InRoom(r))]
        /\ connection_info = [h \in Handles |->
                [dashboard_id |-> roomOf[h], user_id |-> UserOrder[h],
                 username |-> UsernameOf(h)]]
        /\ stack = [t \in Tasks |-> <<EndpointFrame("recv")>>]
        /\ exc = [t \in Tasks |-> "none"]
        /\ req = [h \in Handles |->
                [room |-> roomOf[h], user |-> UserOrder[h], name |-> UsernameOf(h)]]
        /\ transport = [h \in Handles |-> "open"]
        /\ closeCode = [h \in Handles |-> 0]
        /\ inbox = [h \in Handles |->
                SelectSeq([i \in 1..(NumHandles - h + 1) |-> Joined(h + i - 1)],
                          LAMBDA e : e.room = roomOf[h])]
        /\ framesIn = 0
        /\ userHash = [k \in {<<roomOf[h], UserOrder[h]>> : h \in Handles} |->
                LET h == CHOOSE g \in Handles : UserOrder[g] = k[2]
                IN  [username |-> UsernameOf(h), status |-> "online", socket_id |-> h,
                     ttl |-> TRUE]]
        /\ userSet = [r \in Rooms |-> {UserOrder[h] : h \in InRoom(r)}]
        /\ msgHash = [k \in {} |-> <<>>]
        /\ msgList = [r \in Rooms |-> <<>>]
        /\ nextId = 0
        /\ lastOp = [k \in Rooms \X Users |->
                IF k \in {<<roomOf[h], UserOrder[h]>> : h \in Handles}
                THEN "register" ELSE "none"]
        /\ regOrder = [h \in Handles |-> h]
        /\ sendq = [h \in Handles |-> <<>>]
        /\ issued = NumHandles
        /\ got = <<>>
        /\ created = <<>>
        /\ leftCalls = <<>>
        /\ faults = <<>>
        /\ history_limit = message_history_limit
        /\ roomHash = [r \in {} |-> <<>>]
        /\ pushed = [r \in Rooms |-> <<>>]
        /\ responses = <<>>
        /\ expired = {}

\* a client closes its connection (at most MaxCloses in a run)
ChatClose(h) ==
    /\ Cardinality({g \in Handles : transport[g] = "peer_closed"}) < MaxCloses
    /\ ClientClose(h)

NextChat ==
    \/ \E h \in Handles : ChatClose(h)
    \/ \E t \in Handles, fr \in Frames : RecvFrame(t, fr)
    \/ \E t \in Tasks : ChatStep(t)
    \/ \E t \in Tasks : CloseStep(t)
    \/ \E t \in Tasks : BcastStep(t)
    \/ \E t \in Tasks : DisconnectStep(t)
    \/ \E t \in Tasks : RaiseStep(t)

SpecChat == InitChat /\ [][NextChat]_vars

\* SpecPresence: SpecChat in which the expiry of a presence hash (3600 s,
\* set at websocket_manager.py line 57 and chat_routes.py line 78) may elapse:
\* the store deletes the key user:{room}:{user}; the set connected_users:{room}
\* has no expiry and keeps the member.
ExpireUser(key) ==
    /\ Quiet
    /\ Cardinality(expired) < MaxExpiries
    /\ key \in DOMAIN userHash
    /\ userHash[key].ttl
    /\ userHash' = RedisDel(userHash, key)
    /\ expired' = expired \cup {key}
    /\ UNCHANGED <<registryVars, clientVars, stack, exc, userSet, msgHash, msgList, nextId,
                   issued, histVars, history_limit, roomHash, pushed, responses>>

NextPresence ==
    \/ NextChat
    \/ \E key \in DOMAIN userHash : ExpireUser(key)

SpecPresence == InitChat /\ [][NextPresence]_vars

\* SpecFault: connections with valid ids are opened to one room and closed,
\* and a command of the presence store may fail.
NextFault ==
    \/ \E h \in Handles, user \in Users : Open(h, "d1", user)
    \/ \E h \in Handles : ChatClose(h)
    \/ \E t \in Tasks : ConnectStep(t)
    \/ \E t \in Tasks : CloseStep(t)
    \/ \E t \in Tasks : BcastStep(t)
    \/ \E t \in Tasks : DisconnectStep(t)
    \/ \E t \in Tasks : RaiseStep(t)
    \/ \E t \in Tasks : PresenceFault(t)
    \/ \E t \in Tasks : EndpointCatch(t)

SpecFault == Init /\ [][NextFault]_vars

\* ------------------------------------------------------------------ REST requests
\* SpecStore: REST requests on the message store and the room records.  In
\* its first state the last websocket is connected to room d1 and awaits a
\* frame, the deployment's history limit is 1..MaxLimit, and the history of
\* d1 is empty or holds one message saved earlier.  Every other task serves
\* one REST request.
InitStore ==
    \E limit \in 1..MaxLimit, old \in 0..1 :
      LET ws == NumHandles
          m == [id |-> Uuid(1), dashboard_id |-> "d1", user_id |-> UserOrder[ws],
                username |-> UsernameOf(ws), content |-> <<"o", "l", "d">>,
                message_type |-> "text", reply_to |-> None]
      IN
        /\ active_connections = [r \in {"d1"} |-> <<[k |-> UserOrder[ws], v |-> ws]>>]
        /\ connection_info = [h \in {ws} |->
                [dashboard_id |-> "d1", user_id |-> UserOrder[ws], username |-> UsernameOf(ws)]]
        /\ stack = [t \in Tasks |-> IF t = ws THEN <<EndpointFrame("recv")>> ELSE <<>>]
        /\ exc = [t \in Tasks |-> "none"]
        /\ req = [h \in Handles |->
                IF h = ws THEN [room |-> "d1", user |-> UserOrder[ws], name |-> UsernameOf(ws)]
                ELSE NoReq]
        /\ transport = [h \in Handles |-> IF h = ws THEN "open" ELSE "none"]
        /\ closeCode = [h \in Handles |-> 0]
        /\ inbox = [h \in Handles |->
                IF h = ws
                THEN <<[ev |-> UserJoined(UsernameOf(ws)), room |-> "d1", by |-> ws, seq |-> 1]>>
                ELSE <<>>]
        /\ framesIn = 0
        /\ userHash = [k \in {<<"d1", UserOrder[ws]>>} |->
                [username |-> UsernameOf(ws), status |-> "online", socket_id |-> ws,
                 ttl |-> TRUE]]
        /\ userSet = [r \in Rooms |-> IF r = "d1" THEN {UserOrder[ws]} ELSE {}]
        /\ msgHash = [k \in {<<"d1", m.id>> : i \in 1..old} |-> to_dict(m) @@ [ttl |-> TRUE]]
        /\ msgList = [r \in Rooms |-> IF r = "d1" /\ old = 1 THEN <<m.id>> ELSE <<>>]
        /\ nextId = old
        /\ lastOp = [k \in Rooms \X Users |->
                IF k = <<"d1", UserOrder[ws]>> THEN "register" ELSE "none"]
        /\ regOrder = <<ws>>
        /\ sendq = [h \in Handles |-> <<>>]
        /\ issued = 1
        /\ got = <<>>
        /\ created = [i \in 1..old |-> m]
        /\ leftCalls = <<>>
        /\ faults = <<>>
        /\ history_limit = limit
        /\ roomHash = [r \in {} |-> <<>>]
        /\ pushed = [r \in Rooms |-> IF r = "d1" /\ old = 1 THEN <<m.id>> ELSE <<>>]
        /\ responses = <<>>
        /\ expired = {}

\* A REST request arrives and its task runs to its first await:
\* send_message (POST /messages/{room}, lines 260-318) builds the ChatMessage
\* and calls save_message_to_redis; clear_all_messages (DELETE
\* /messages/{room}, 389-429) and get_room_info (GET /rooms/{room}, 320-367)
\* await their first store command.  req[t].before holds the ids of the
\* room's messages whose append had completed when the request arrived and
\* req[t].after the number of responses sent by then.
Request(t, op, room) ==
    /\ Quiet
    /\ t < NumHandles
    /\ req[t] = NoReq
    /\ \A g \in Tasks : g < t => req[g] # NoReq
    /\ LET m == [id |-> Uuid(nextId + 1), dashboard_id |-> room, user_id |-> UserOrder[t],
                 username |-> UsernameOf(t), content |-> Strip(<<"h", "i", " ">>),
                 message_type |-> "text", reply_to |-> None]
           saving == {stack[g][i].msg.id : <<g, i>> \in
                        {x \in Tasks \X (1..8) : /\ x[2] <= Len(stack[x[1]])
                                                  /\ stack[x[1]][x[2]].fn = "save_message"}}
       IN  /\ req' = [req EXCEPT ![t] =
                    [room |-> room, user |-> UserOrder[t], name |-> UsernameOf(t), op |-> op,
                     after |-> Len(responses),
                     before |-> {created[i].id : i \in {j \in 1..Len(created) :
                                    created[j].dashboard_id = room}} \ saving]]
           /\ stack' = [stack EXCEPT ![t] =
                    IF op = "send"
                    THEN <<[fn |-> "rest", pc |-> "ret_save", msg |-> m],
                           [fn |-> "save_message", pc |-> "hset", msg |-> m]>>
                    ELSE IF op = "clear"
                    THEN <<[fn |-> "rest", pc |-> "lrange", ids |-> <<>>, snap |-> <<>>,
                            count |-> 0]>>
                    ELSE <<[fn |-> "rest", pc |-> "hgetall"]>>]
           /\ nextId' = IF op = "send" THEN nextId + 1 ELSE nextId
           /\ created' = IF op = "send" THEN Append(created, m) ELSE created
    /\ UNCHANGED <<registryVars, storeVars, exc, transport, closeCode, inbox, framesIn, sendq,
                   issued, got, leftCalls, faults, restVars>>

\* send_message, line 302: connection_manager.broadcast_message(chat_message)
SendMessageBroadcast(t) ==
    /\ At(t, "rest", "ret_save")
    /\ LET m == Top(t).msg IN
       stack' = [stack EXCEPT ![t] =
                   Call(@, [fn |-> "rest", pc |-> "done", value |-> m.id],
                        BcastFrame(m.dashboard_id, ChatEvent(m), ""))]
    /\ UNCHANGED <<registryVars, storeVars, clientVars, exc, nextId, issued, histVars, restVars>>

\* clear_all_messages, lines 396-397: redis.lrange(list_key, 0, -1)
ClearLrange(t) ==
    /\ Resume(t, "rest", "lrange")
    /\ LET ids == RedisLrange(msgList[req[t].room], 0, -1) IN
       stack' = [stack EXCEPT ![t] =
                   SetTop(@, [Top(t) EXCEPT !.ids = ids, !.snap = ids,
                                            !.pc = IF ids = <<>> THEN "del_list" ELSE "delete"])]
    /\ UNCHANGED <<registryVars, storeVars, clientVars, exc, nextId, issued, histVars, restVars>>

\* a faulty delete step that removes every message hash of the room, listed
\* or not
ClearDeleteRoom(t) ==
    /\ Resume(t, "rest", "delete")
    /\ LET f == Top(t)
           key == <<req[t].room, Head(f.ids)>>
       IN  /\ msgHash' = [k \in {x \in DOMAIN msgHash : x[1] # req[t].room} |-> msgHash[k]]
           /\ stack' = [stack EXCEPT ![t] =
                 SetTop(@, [f EXCEPT !.ids = Tail(f.ids),
                                     !.count = IF key \in DOMAIN msgHash THEN @ + 1 ELSE @,
                                     !.pc = IF Tail(f.ids) = <<>> THEN "del_list" ELSE "delete"])]
    /\ UNCHANGED <<registryVars, clientVars, exc, userHash, userSet, msgList, nextId, issued,
                   histVars, restVars>>

\* clear_all_messages, lines 401-405: redis.delete(message_key) for the next
\* id; the count goes up when the key existed
ClearDelete(t) ==
    /\ Resume(t, "rest", "delete")
    /\ LET f == Top(t)
           key == <<req[t].room, Head(f.ids)>>
       IN  /\ msgHash' = RedisDel(msgHash, key)
           /\ stack' = [stack EXCEPT ![t] =
                 SetTop(@, [f EXCEPT !.ids = Tail(f.ids),
                                     !.count = IF key \in DOMAIN msgHash THEN @ + 1 ELSE @,
                                     !.pc = IF Tail(f.ids) = <<>> THEN "del_list" ELSE "delete"])]
    /\ UNCHANGED <<registryVars, clientVars, exc, userHash, userSet, msgList, nextId, issued,
                   histVars, restVars>>

\* a faulty clear that broadcasts messages_cleared and leaves the list key
ClearBroadcastOnly(t) ==
    /\ Resume(t, "rest", "del_list")
    /\ stack' = [stack EXCEPT ![t] =
                   Call(@, [fn |-> "rest", pc |-> "done", value |-> Top(t).count,
                            snap |-> Top(t).snap],
                        BcastFrame(req[t].room,
                                   [type |-> "messages_cleared", dashboard_id |-> req[t].room,
                                    cleared_count |-> Top(t).count], ""))]
    /\ UNCHANGED <<registryVars, storeVars, clientVars, exc, nextId, issued, histVars, restVars>>

\* clear_all_messages, lines 408-423: redis.delete(list_key), then the
\* messages_cleared event is broadcast to the room
ClearDelList(t) ==
    /\ Resume(t, "rest", "del_list")
    /\ msgList' = [msgList EXCEPT ![req[t].room] = <<>>]
    /\ pushed' = [pushed EXCEPT ![req[t].room] = <<>>]
    /\ stack' = [stack EXCEPT ![t] =
                   Call(@, [fn |-> "rest", pc |-> "done", value |-> Top(t).count,
                            snap |-> Top(t).snap],
                        BcastFrame(req[t].room,
                                   [type |-> "messages_cleared", dashboard_id |-> req[t].room,
                                    cleared_count |-> Top(t).count], ""))]
    /\ UNCHANGED <<registryVars, clientVars, exc, userHash, userSet, msgHash, nextId, issued,
                   histVars, history_limit, roomHash, responses, expired>>

\* get_room_info, lines 327-337: redis.hgetall(room_key); the stored record is
\* read as it is, or a ChatRoom with a new id and creation time is built
RoomHgetall(t) ==
    /\ Resume(t, "rest", "hgetall")
    /\ LET room == req[t].room IN
       IF room \in DOMAIN roomHash
       THEN /\ stack' = [stack EXCEPT ![t] =
                   SetTop(@, [fn |-> "rest", pc |-> "done",
                              value |-> [id |-> roomHash[room].id,
                                         created_at |-> roomHash[room].created_at]])]
            /\ nextId' = nextId
       ELSE /\ stack' = [stack EXCEPT ![t] =
                   SetTop(@, [fn |-> "rest", pc |-> "room_hset",
                              value |-> [id |-> Uuid(nextId + 1), created_at |-> nextId + 1]])]
            /\ nextId' = nextId + 1
    /\ UNCHANGED <<registryVars, storeVars, clientVars, exc, issued, histVars, restVars>>

\* get_room_info, line 338: redis.hset(room_key, mapping=room.to_dict()); the
\* reads of get_connected_users_from_redis that follow change nothing
RoomHset(t) ==
    /\ Resume(t, "rest", "room_hset")
    /\ roomHash' = RedisHset(roomHash, req[t].room,
                             [id |-> Top(t).value.id, dashboard_id |-> req[t].room,
                              created_at |-> Top(t).value.created_at, is_active |-> "1"])
    /\ stack' = [stack EXCEPT ![t] = SetTop(@, [Top(t) EXCEPT !.pc = "done"])]
    /\ UNCHANGED <<registryVars, storeVars, clientVars, exc, nextId, issued, histVars,
                   history_limit, pushed, responses, expired>>

\* the request's response is sent and its task ends
RestReturn(t) ==
    /\ At(t, "rest", "done")
    /\ responses' = Append(responses, [by |-> t, op |-> req[t].op, room |-> req[t].room,
                                        result |-> Top(t)])
    /\ stack' = [stack EXCEPT ![t] = <<>>]
    /\ UNCHANGED <<registryVars, storeVars, clientVars, exc, nextId, issued, histVars,
                   history_limit, roomHash, pushed, expired>>

\* the expiry of a message hash elapses: the store deletes the key
ExpireMessage(key) ==
    /\ Quiet
    /\ Cardinality(expired) < MaxExpiries
    /\ key \in DOMAIN msgHash
    /\ msgHash[key].ttl
    /\ msgHash' = RedisDel(msgHash, key)
    /\ expired' = expired \cup {key}
    /\ UNCHANGED <<registryVars, clientVars, stack, exc, userHash, userSet, msgList, nextId,
                   issued, histVars, history_limit, roomHash, pushed, responses>>

StoreStep(t) ==
    \/ SaveMessageHset(t) \/ SaveMessageRpush(t) \/ SaveMessageLtrim(t) \/ SaveMessageExpire(t)
    \/ SendMessageBroadcast(t)
    \/ ClearLrange(t) \/ ClearDelete(t) \/ ClearDelList(t)
    \/ RoomHgetall(t) \/ RoomHset(t)
    \/ RestReturn(t)

NextStore ==
    \/ \E t \in Tasks, op \in {"send", "clear", "room"}, room \in Rooms : Request(t, op, room)
    \/ \E key \in DOMAIN msgHash : ExpireMessage(key)
    \/ \E t \in Tasks : StoreStep(t)
    \/ \E t \in Tasks : BcastStep(t)

SpecStore == InitStore /\ [][NextStore]_vars

\* SpecLeave: the connections of the room of InitChat close, at most MaxLeaves
\* of them; no frame is sent.
Leave(h) ==
    /\ Cardinality({g \in Handles : transport[g] = "peer_closed"}) < MaxLeaves
    /\ ClientClose(h)

NextLeave ==
    \/ \E h \in Handles : Leave(h)
    \/ \E t \in Tasks : CloseStep(t)
    \/ \E t \in Tasks : BcastStep(t)
    \/ \E t \in Tasks : DisconnectStep(t)
    \/ \E t \in Tasks : RaiseStep(t)

SpecLeave == InitChat /\ [][NextLeave]_vars

\* FairLeave: SpecLeave in which the event loop keeps running the tasks that
\* are ready (a task whose await has completed is resumed, a task inside a
\* synchronous stretch runs on to its next await).
FairLeave ==
    /\ SpecLeave
    /\ WF_vars(\E t \in Tasks :
                  CloseStep(t) \/ BcastStep(t) \/ DisconnectStep(t) \/ RaiseStep(t))

\* ------------------------------------------------------------------ vocabulary of the claims
\* the broadcast frames of all tasks
BcastFrames ==
    {<<t, i>> \in Tasks \X (1..8) : i <= Len(stack[t]) /\ stack[t][i].fn = "bcast"}

Frame(ti) == stack[ti[1]][ti[2]]

\* the handler of h has accepted the connection and has not begun its cleanup
Active(h) ==
    /\ stack[h] # <<>>
    /\ stack[h][1].fn = "endpoint"
    /\ stack[h][1].pc = "recv"

\* the handler task of h has ended
Ended(h) == req[h] # NoReq /\ stack[h] = <<>>

\* the websockets registered in a room
RegisteredIn(room) ==
    IF room \in DOMAIN active_connections THEN DictValues(active_connections[room]) ELSE {}

\* the websocket the registry ac holds for (room, user), NoHandle if none
Lookup(ac, room, user) ==
    IF room \in DOMAIN ac /\ DictHas(ac[room], user) THEN DictGet(ac[room], user) ELSE NoHandle

\* the loop of a broadcast call is over: it reached line 133, or an exception
\* is leaving the call
CallOver(ti) ==
    \/ Frame(ti).pc = "cleanup"
    \/ exc[ti[1]] # "none" /\ ti[2] = Len(stack[ti[1]])

\* an exception is leaving the broadcast call
Raised(ti) == exc[ti[1]] # "none" /\ ti[2] = Len(stack[ti[1]])

\* the connections a broadcast found in the room when it began, not excluded,
\* that are still registered in the room
StillRegistered(f) == (f.snap \ f.snapExcl) \cap RegisteredIn(f.room)

\* position of websocket h in regOrder, 0 if connect has not registered it
RegPos(h) ==
    IF \E i \in 1..Len(regOrder) : regOrder[i] = h
    THEN CHOOSE i \in 1..Len(regOrder) : regOrder[i] = h
    ELSE 0

\* connect registered new under the (room, user) of old, after old, and no
\* websocket was registered under that (room, user) since
Replaced(old, new) ==
    /\ RegPos(old) > 0
    /\ RegPos(new) > RegPos(old)
    /\ req[old].room = req[new].room
    /\ req[old].user = req[new].user
    /\ \A g \in Handles :
          (RegPos(g) > RegPos(new)) =>
              (req[g].room # req[new].room \/ req[g].user # req[new].user)

\* ------------------------------------------------------------------ C1
\* C1: whatever the interleaving of the handlers' connect and disconnect
\* calls, the users get_connected_users lists for a room are exactly the users
\* whose last registry operation in that room was a register: no register and
\* no unregister is lost.
C1_NoLostUpdate ==
    \A room \in Rooms, user \in Users :
        (user \in get_connected_users(room)) <=> (lastOp[<<room, user>>] = "register")

\* two users registered in one room, one of them unregistered since, and every
\* operation has completed
C1_Witness ==
    /\ Quiet
    /\ \E g, h \in Handles :
          /\ g # h
          /\ Ended(g)
          /\ Active(h)
          /\ req[g].user \in Users
          /\ req[g].room = req[h].room
          /\ req[g].user # req[h].user
          /\ lastOp[<<req[g].room, req[g].user>>] = "unregister"
          /\ lastOp[<<req[h].room, req[h].user>>] = "register"
          /\ get_connected_users(req[h].room) = {req[h].user}

\* ------------------------------------------------------------------ C2
\* C2: in a broadcast_to_dashboard call in which a send failed, once the loop
\* is over a send was issued to every other connection the call found in the
\* room, not excluded, that is still registered there.
C2_FailureIsolated ==
    \A ti \in BcastFrames :
        (Frame(ti).failed # <<>> /\ CallOver(ti)) =>
            StillRegistered(Frame(ti)) \subseteq Frame(ti).att

\* ------------------------------------------------------------------ C3
\* C3: a broadcast that found a connection with a closed transport in the room
\* lets no exception escape, and when it is about to return that connection is
\* in neither registry map and the presence hash connect wrote for it is gone.
C3_ClosedConnectionRemoved ==
    \A ti \in BcastFrames :
        LET f == Frame(ti) IN
        f.snapClosed # {} =>
            /\ ~Raised(ti)
            /\ (f.pc = "cleanup" /\ f.failed = <<>> /\ ti[2] = Len(stack[ti[1]])) =>
                  \A c \in f.snapClosed :
                      /\ c \notin DOMAIN connection_info
                      /\ c \notin RegisteredIn(f.room)
                      /\ \A k \in DOMAIN userHash :
                            k = <<req[c].room, req[c].user>> =>
                                Get(userHash[k], "socket_id", NoHandle) # c

\* ------------------------------------------------------------------ C4
\* C4: a broadcast works on the members the room had when it began: whatever
\* other tasks register or unregister while it is suspended at a send, it
\* raises nothing and, once its loop is over, it has issued a send to every
\* connection that was registered in the room when it began and is not excluded.
C4_SnapshotBroadcast ==
    \A ti \in BcastFrames :
        LET f == Frame(ti) IN
        /\ ~Raised(ti)
        /\ f.pc = "cleanup" => (f.snap \ f.snapExcl) \subseteq f.att

\* ------------------------------------------------------------------ C5
\* task t takes a step of the cleanup of the closed connection c: a step of
\* disconnect(c), or of remove_user_from_redis in c's own handler
CleanupStepOf(t, c) ==
    /\ stack[t] # <<>>
    /\ stack'[t] # stack[t]
    /\ transport[c] # "open"
    /\ \/ Top(t).fn = "disconnect" /\ Top(t).ws = c
       \/ Top(t).fn = "remove_user" /\ t = c

\* C5: the cleanup of a closed connection leaves in place the registry entry
\* and the presence record (hash and set membership) of every other connection
\* that is open and registered, whatever its room and user id.
C5_CleanupLeavesOthers ==
    [][\A t \in Tasks, c \in Handles, h \in Handles :
          (/\ c # h
           /\ CleanupStepOf(t, c)
           /\ transport[h] = "open"
           /\ Lookup(active_connections, req[h].room, req[h].user) = h) =>
              /\ Lookup(active_connections', req[h].room, req[h].user) = h
              /\ (<<req[h].room, req[h].user>> \in DOMAIN userHash) =>
                     (<<req[h].room, req[h].user>> \in DOMAIN userHash')
              /\ (req[h].user \in userSet[req[h].room]) =>
                     (req[h].user \in userSet'[req[h].room])]_vars

\* ------------------------------------------------------------------ C6
\* C6: once a second connect for the same (room, user) has replaced the
\* registered websocket, and while the new connection is open, the registry
\* holds the new websocket for (room, user), no broadcast that began after the
\* replacement issues a send to the old websocket, and the service has not
\* closed the old transport.
C6_ReplacedHandle ==
    \A old, new \in Handles :
        (Replaced(old, new) /\ transport[new] = "open") =>
            /\ Lookup(active_connections, req[new].room, req[new].user) = new
            /\ \A ti \in BcastFrames :
                  (Frame(ti).room = req[new].room /\ new \in Frame(ti).snap) =>
                      old \notin Frame(ti).att
            /\ transport[old] # "svc_closed"

\* ------------------------------------------------------------------ C7
\* C7: when one handler task issues a broadcast and later another one, every
\* connection that receives both events receives them in the order the
\* broadcasts were issued.
C7_SameHandlerFifo ==
    \A h \in Handles : \A i, j \in 1..Len(inbox[h]) :
        (i < j /\ inbox[h][i].by = inbox[h][j].by) => inbox[h][i].seq < inbox[h][j].seq

\* a client has received the user_joined event its handler broadcast and, after
\* it, the chat_message event of a frame the same handler received
C7_Witness ==
    \E h \in Handles : \E i, j \in 1..Len(inbox[h]) :
        /\ i < j
        /\ inbox[h][i].by = inbox[h][j].by
        /\ inbox[h][i].ev.type = "user_joined"
        /\ inbox[h][j].ev.type = "chat_message"

\* ------------------------------------------------------------------ C8
\* C8: when two handlers issue a broadcast each in one room, every connection
\* that receives both events receives them in the order the broadcasts were
\* issued, and no two connections receive them in opposite orders.
C8_IssueOrderAcrossHandlers ==
    /\ \A h \in Handles : \A i, j \in 1..Len(inbox[h]) :
          (i < j /\ inbox[h][i].by # inbox[h][j].by) => inbox[h][i].seq < inbox[h][j].seq
    /\ \A g, h \in Handles :
          \A i, j \in 1..Len(inbox[g]) : \A k, l \in 1..Len(inbox[h]) :
              (i < j /\ k < l /\ inbox[g][i].by # inbox[g][j].by) =>
                  ~(inbox[h][l] = inbox[g][i] /\ inbox[h][k] = inbox[g][j])

\* ------------------------------------------------------------------ C9
\* C9: once the loop of the broadcast of a valid chat_message frame is over,
\* the message is in the room's history, the event carries the trimmed content
\* and the sender's username, and a send was issued to every connection the
\* call found in the room that is still registered there, the sender's included.
C9_ChatFanOut ==
    \A ti \in BcastFrames :
        LET f == Frame(ti)
            t == ti[1]
        IN  (f.ev.type = "chat_message" /\ CallOver(ti)) =>
               /\ \E n \in 1..Len(msgList[f.room]) : msgList[f.room][n] = f.ev.id
               /\ f.ev.content = Strip(RawContent(stack[t][ti[2] - 1].data))
               /\ f.ev.username = req[t].name
               /\ f.excl = ""
               /\ StillRegistered(f) \subseteq f.att

\* ------------------------------------------------------------------ C10
\* C10: once the loop of the broadcast of a typing frame is over, the event
\* carries the frame's is_typing value, a send was issued to every connection
\* the call found in the room under another user id that is still registered
\* there, none was issued to a connection registered under the sender's user
\* id, and (no chat message having been sent) the message store is empty.
C10_TypingFanOut ==
    \A ti \in BcastFrames :
        LET f == Frame(ti)
            t == ti[1]
        IN  (f.ev.type = "typing" /\ CallOver(ti)) =>
               /\ f.ev.is_typing \in BOOLEAN
               /\ StillRegistered(f) \subseteq f.att
               /\ f.att \cap f.snapExcl = {}
               /\ nextId = 0 => (DOMAIN msgHash = {} /\ msgList[f.room] = <<>>)

\* ------------------------------------------------------------------ C11
\* C11: when the handler handles a chat_message frame whose content is empty
\* after trimming or longer than max_message_length, it drops the frame:
\* nothing is written to the message store, no ChatMessage is built, no
\* broadcast is issued, no frame is sent to any client (the sender included),
\* the registry is untouched, and the handler is back at its receive loop
\* with the connection open.
C11_InvalidContentDropped ==
    [][\A t \in Tasks :
          (/\ At(t, "handle_msg", "validate")
           /\ JsonObject(ChatFrame(Top(t).data)) \in BadContentFrames)
          => /\ stack'[t] = <<EndpointFrame("recv")>>
             /\ exc'[t] = "none"
             /\ UNCHANGED <<registryVars, storeVars, inbox, sendq, transport, closeCode,
                            created, nextId, issued>>]_vars

\* a handler received a chat_message frame with such a content and awaits the
\* next frame, its connection open and registered
C11_Witness ==
    \E i \in 1..Len(got) :
        LET t == got[i].by
        IN  /\ got[i].text \in BadContentFrames
            /\ stack[t] = <<EndpointFrame("recv")>>
            /\ exc[t] = "none"
            /\ transport[t] = "open"
            /\ t \in DOMAIN connection_info

\* ------------------------------------------------------------------ C12
\* C12: a frame that cannot be parsed, or an exception raised while one frame
\* is handled, does not end the handler: a connection whose transport is open
\* and that has received frames still has its handler in the receive loop,
\* is still registered and present in the store, and no user_left was
\* broadcast for it.
C12_FrameErrorKeepsConnection ==
    \A t \in Tasks :
        (transport[t] = "open" /\ \E i \in 1..Len(got) : got[i].by = t)
        => /\ Active(t)
           /\ Lookup(active_connections, req[t].room, req[t].user) = t
           /\ <<req[t].room, req[t].user>> \in DOMAIN userHash
           /\ req[t].user \in userSet[req[t].room]
           /\ \A i \in 1..Len(leftCalls) : leftCalls[i].ws # t

\* ------------------------------------------------------------------ C13
\* C13: when the handler receives a frame that is a JSON object whose type is
\* missing or is neither chat_message nor typing, nothing changes but the
\* frame being consumed: no store write, no registry or presence change, no
\* ChatMessage, no broadcast, no frame sent to any client, and the handler
\* stays in its receive loop with the connection open.
C13_UnknownTypeIgnored ==
    [][(Len(got') = Len(got) + 1 /\ got'[Len(got')].text \in UnknownTypeFrames)
       => UNCHANGED <<registryVars, storeVars, stack, exc, inbox, sendq, transport,
                      closeCode, created, nextId, issued, leftCalls>>]_vars

\* a handler received a frame whose type is unknown or missing and awaits the
\* next frame, still registered
C13_Witness ==
    \E i \in 1..Len(got) :
        LET t == got[i].by
        IN  /\ got[i].text \in UnknownTypeFrames
            /\ stack[t] = <<EndpointFrame("recv")>>
            /\ transport[t] = "open"
            /\ Lookup(active_connections, req[t].room, req[t].user) = t

\* ------------------------------------------------------------------ C14
\* C14: when the handler of an accepted connection (R, U) whose transport is
\* open, and which no later connection has replaced, is about to wait for its
\* first inbound frame, the handle is registered under (R, U), the presence
\* hash of (R, U) exists, U is in connected_users:R, and the user_joined event
\* naming U's username has reached every open connection that was registered
\* in R no later than this one and still is.
C14_ReadyWhenAwaiting ==
    \A t \in Tasks :
        (/\ At(t, "endpoint", "ret_save")
         /\ transport[t] = "open"
         /\ \A g \in Handles :
               RegPos(g) > RegPos(t) => (req[g].room # req[t].room \/ req[g].user # req[t].user))
        => /\ Lookup(active_connections, req[t].room, req[t].user) = t
           /\ <<req[t].room, req[t].user>> \in DOMAIN userHash
           /\ req[t].user \in userSet[req[t].room]
           /\ \A g \in RegisteredIn(req[t].room) :
                 (RegPos(g) <= RegPos(t) /\ transport[g] = "open")
                 => \E i \in 1..Len(inbox[g]) : inbox[g][i].ev = UserJoined(req[t].name)

\* ------------------------------------------------------------------ C15
\* C15: once the handler of a connection (R, U) whose transport closed has
\* terminated, the handle is in neither registry map, the presence hash of
\* (R, U) and U's membership of connected_users:R are gone, and the user_left
\* event naming U's username has reached every open connection that remains
\* registered in R.
C15_LeaveCompletes ==
    \A h \in Handles :
        Ended(h)
        => /\ h \notin DOMAIN connection_info
           /\ Lookup(active_connections, req[h].room, req[h].user) # h
           /\ <<req[h].room, req[h].user>> \notin DOMAIN userHash
           /\ req[h].user \notin userSet[req[h].room]
           /\ \A g \in RegisteredIn(req[h].room) :
                 transport[g] = "open"
                 => \E i \in 1..Len(inbox[g]) : inbox[g][i].ev = UserLeft(req[h].name)

\* ------------------------------------------------------------------ C16
\* C16: disconnect is idempotent: a call for a websocket connection_info does
\* not (or no longer) hold returns at once, changing neither the registry nor
\* the store, issuing no broadcast and sending no frame; so
\* broadcast_user_left is called at most once for a websocket.
C16_DisconnectIdempotent ==
    /\ [](\A i, j \in 1..Len(leftCalls) : leftCalls[i].ws = leftCalls[j].ws => i = j)
    /\ [][\A t \in Tasks :
             (At(t, "disconnect", "begin") /\ Top(t).ws \notin DOMAIN connection_info)
             => /\ stack'[t] = Pop(stack[t])
                /\ exc'[t] = "none"
                /\ UNCHANGED <<registryVars, storeVars, inbox, sendq, issued, leftCalls>>]_vars

\* the handler of a websocket has called disconnect for it and the call has
\* returned, after the cleanup of another task's broadcast had disconnected
\* the websocket and called broadcast_user_left for it
C16_Witness ==
    \E t \in Tasks :
        /\ At(t, "endpoint", "ret_disc")
        /\ \E i \in 1..Len(leftCalls) : leftCalls[i].ws = t /\ leftCalls[i].by # t
        /\ \A i \in 1..Len(leftCalls) : leftCalls[i].ws = t => leftCalls[i].by # t

\* ------------------------------------------------------------------ C17
\* C17: when a store command fails while a chat_message frame is handled, the
\* handling of the frame is abandoned: the failed command is not issued
\* again and no later one is, the message is not broadcast, no frame is sent
\* to any client, the registry is untouched, and once the exception is
\* handled the handler is back at its receive loop, where it takes the next
\* frame.
C17_StoreFaultAbortsFrame ==
    /\ [](\A i \in 1..Len(faults) : \A h \in Handles : \A j \in 1..Len(inbox[h]) :
             inbox[h][j].ev.type = "chat_message" => inbox[h][j].ev.id # faults[i].id)
    /\ [][\A t \in Tasks :
             /\ (exc[t] = "RedisError" \/ exc'[t] = "RedisError")
                => UNCHANGED <<registryVars, storeVars, inbox, sendq, transport, closeCode,
                               created, issued, leftCalls>>
             /\ (exc[t] = "RedisError" /\ exc'[t] = "none")
                => stack'[t] = <<EndpointFrame("recv")>>]_vars

\* a store command of a chat_message frame failed and the handler awaits the
\* next frame, its connection open and registered
C17_Witness ==
    \E i \in 1..Len(faults) :
        LET t == faults[i].by
        IN  /\ stack[t] = <<EndpointFrame("recv")>>
            /\ exc[t] = "none"
            /\ transport[t] = "open"
            /\ Lookup(active_connections, req[t].room, req[t].user) = t

\* ------------------------------------------------------------------ C18
\* C18: a connection request whose room id or user id is empty is never
\* accepted: it gets no entry in either registry map, no presence record is
\* written for it, no user_joined event names it, and its handler ends by
\* closing it with code 4000.
C18_EmptyIdRejected ==
    \A h \in Handles :
        (req[h] # NoReq /\ (req[h].room = "" \/ req[h].user = ""))
        => /\ transport[h] \in {"pending", "svc_closed"}
           /\ h \notin DOMAIN connection_info
           /\ \A room \in DOMAIN active_connections :
                 h \notin DictValues(active_connections[room])
           /\ RegPos(h) = 0
           /\ <<req[h].room, req[h].user>> \notin DOMAIN userHash
           /\ \A room \in Rooms : req[h].user \notin userSet[room]
           /\ \A g \in Handles : \A i \in 1..Len(inbox[g]) :
                 inbox[g][i].ev # UserJoined(req[h].name)
           /\ Ended(h) => closeCode[h] = 4000

\* a request with an empty user id was closed with code 4000 and its handler
\* has returned, while another connection is registered
C18_Witness ==
    \E h \in Handles :
        /\ req[h] # NoReq
        /\ req[h].user = ""
        /\ Ended(h)
        /\ closeCode[h] = 4000
        /\ transport[h] = "svc_closed"
        /\ connection_info # <<>>

\* ------------------------------------------------------------------ C19
\* C19: rooms are isolated: an event a client receives was broadcast for the
\* room its connection was made to, a broadcast for a room attempts no send
\* to a connection made to another room, and a chat message is built for the
\* room of the connection that sent it and is stored in the hash and the
\* history list of that room only.
C19_RoomsIsolated ==
    /\ \A h \in Handles : \A i \in 1..Len(inbox[h]) : inbox[h][i].room = req[h].room
    /\ \A ti \in BcastFrames : \A h \in Frame(ti).att : req[h].room = Frame(ti).room
    /\ \A i \in 1..Len(created) :
          LET m == created[i]
          IN  /\ \E h \in Handles : req[h].user = m.user_id /\ req[h].room = m.dashboard_id
              /\ \A room \in Rooms \ {m.dashboard_id} :
                    /\ <<room, m.id>> \notin DOMAIN msgHash
                    /\ \A j \in 1..Len(msgList[room]) : msgList[room][j] # m.id

\* both rooms hold an open connection; a chat message sent in one of them is
\* in that room's history and its event has reached a client of that room
C19_Witness ==
    \E g, h \in Handles :
        /\ req[g].room # req[h].room
        /\ transport[g] = "open"
        /\ Lookup(active_connections, req[g].room, req[g].user) = g
        /\ msgList[req[h].room] # <<>>
        /\ \E i \in 1..Len(inbox[h]) : inbox[h][i].ev.type = "chat_message"

\* ------------------------------------------------------------------ C20
\* C20: when the history list of a room holds one message, the one
\* save_message_to_redis appended, get_messages_from_redis(room, limit = 1,
\* skip = 0) returns exactly that message, with the id, the sender's user id
\* and username, the content, the message type and the reply_to it was built
\* with, and not deleted.
C20_AppendThenRead ==
    \A room \in Rooms :
        Len(msgList[room]) = 1
        => LET r == get_messages_from_redis(room, 1, 0)
           IN  /\ Len(r) = 1
               /\ \E i \in 1..Len(created) :
                     LET m == created[i]
                     IN  /\ m.id = msgList[room][1]
                         /\ r[1].id = m.id
                         /\ r[1].dashboard_id = room
                         /\ r[1].user_id = m.user_id
                         /\ r[1].username = m.username
                         /\ r[1].content = m.content
                         /\ r[1].message_type = m.message_type
                         /\ r[1].reply_to = m.reply_to
                         /\ r[1].is_deleted = FALSE

\* a message that replies to another was saved, every handler awaits its next
\* frame, and the message is the only one of its room's history
C20_Witness ==
    /\ \A t \in Tasks : stack[t] = <<>> \/ stack[t] = <<EndpointFrame("recv")>>
    /\ faults = <<>>
    /\ \E i \in 1..Len(created) :
          /\ created[i].reply_to # None
          /\ msgList[created[i].dashboard_id] = <<created[i].id>>
          /\ Len(get_messages_from_redis(created[i].dashboard_id, 1, 0)) = 1

\* ------------------------------------------------------------------ C21
\* C21: with history limit K, whenever no append to a room is between its
\* push and its trim, the room's list holds exactly the min(n, K) most
\* recently pushed of the n ids pushed to it, in push order; the list is
\* longer than K only while some append is between its push and its trim.
C21_HistoryBounded ==
    \A room \in Rooms :
        LET trimming == \E t \in Tasks :
                            /\ stack[t] # <<>>
                            /\ Top(t).fn = "save_message"
                            /\ Top(t).pc = "ltrim"
                            /\ Top(t).msg.dashboard_id = room
            n == Len(pushed[room])
            kept == IF n < history_limit THEN n ELSE history_limit
        IN  /\ Len(msgList[room]) > history_limit => trimming
            /\ ~trimming => msgList[room] = SubSeq(pushed[room], n - kept + 1, n)

\* more ids than the limit were pushed to a room, every request has been
\* answered, and the room's list holds as many ids as the limit
C21_Witness ==
    \E room \in Rooms :
        /\ Len(pushed[room]) > history_limit
        /\ \A t \in Tasks : t < NumHandles => stack[t] = <<>>
        /\ Len(msgList[room]) = history_limit
        /\ Len(responses) >= 2

\* ------------------------------------------------------------------ C22
\* C22: for every skip >= 0 and limit >= 0, get_messages_from_redis(room,
\* limit, skip) returns the messages, among the ids at the list positions
\* skip .. skip+limit-1 counted from the head, whose hash exists, in list
\* order, and so never more than limit messages.
C22_RangeRead ==
    \A room \in Rooms : \A skip \in 0..MaxRange : \A limit \in 0..MaxRange :
        LET r == get_messages_from_redis(room, limit, skip)
            l == msgList[room]
            at == {i \in 1..Len(l) : skip < i /\ i <= skip + limit /\ <<room, l[i]>> \in DOMAIN msgHash}
        IN  /\ Len(r) <= limit
            /\ Len(r) = Cardinality(at)
            /\ \A j \in 1..Len(r) : \E i \in at :
                  /\ r[j].id = l[i]
                  /\ Cardinality({k \in at : k < i}) = j - 1

\* ------------------------------------------------------------------ C23
\* C23: when clear_all_messages(room) has deleted the list key and no append
\* for the room overlapped it (every message created for the room had been
\* appended before the request arrived), the hash of every id it listed is
\* gone, the list is empty and a history read returns nothing; its count is
\* at most the number of listed ids that had not expired, and exactly that
\* number when no other clear of the room overlapped it either.
C23_ClearCounts ==
    \A t \in Tasks :
        LET room == req[t].room
            f == stack[t][1]
            made == {created[i].id : i \in {j \in 1..Len(created) : created[j].dashboard_id = room}}
            live == {i \in 1..Len(f.snap) : <<room, f.snap[i]>> \notin expired}
            alone == \A g \in Tasks \ {t} :
                        (/\ g < NumHandles /\ req[g] # NoReq /\ req[g].room = room
                         /\ req[g].op = "clear")
                        => \E i \in 1..req[t].after : responses[i].by = g
        IN  (/\ t < NumHandles /\ req[t] # NoReq /\ req[t].op = "clear"
             /\ stack[t] # <<>> /\ f.pc = "done"
             /\ made \subseteq req[t].before)
            => /\ msgList[room] = <<>>
               /\ \A i \in 1..Len(f.snap) : <<room, f.snap[i]>> \notin DOMAIN msgHash
               /\ \A k \in 0..MaxRange : get_messages_from_redis(room, k, 0) = <<>>
               /\ f.value <= Cardinality(live)
               /\ alone => f.value = Cardinality(live)

\* a clear that listed two ids, one of them expired, has deleted the other
\* hash and the list key and counts one
C23_Witness ==
    \E t \in Tasks :
        /\ t < NumHandles /\ req[t] # NoReq /\ req[t].op = "clear"
        /\ stack[t] # <<>> /\ stack[t][1].pc = "done"
        /\ {created[i].id : i \in {j \in 1..Len(created) : created[j].dashboard_id = req[t].room}}
             \subseteq req[t].before
        /\ Len(stack[t][1].snap) = 2
        /\ stack[t][1].value = 1
        /\ \E i \in 1..2 : <<req[t].room, stack[t][1].snap[i]>> \in expired

\* ------------------------------------------------------------------ C24
\* C24: for a connection h whose (room, user) no other connection uses,
\* whatever the other connections write to the store: once
\* save_connected_user_to_redis has returned, while no removal of (room, user)
\* has begun (the handler is at line 139 or awaits a frame and its transport
\* is open) get_connected_users_from_redis(room) includes the user, and once
\* remove_user_from_redis has returned and the handler has ended it does not.
C24_PutThenListed ==
    \A h \in Handles :
        LET room == req[h].room
            user == req[h].user
            listed == \E u \in get_connected_users_from_redis(room) : u.user_id = user
        IN  (/\ req[h] # NoReq /\ user \in Users
             /\ \A g \in Handles \ {h} : req[g] # NoReq => <<req[g].room, req[g].user>> # <<room, user>>)
            => /\ (/\ transport[h] = "open"
                    /\ stack[h] \in {<<EndpointFrame("ret_save")>>, <<EndpointFrame("recv")>>})
                   => listed
               /\ Ended(h) => ~listed

\* one connection has put its record and is listed while another connection
\* of the same room has removed its own and is not
C24_Witness ==
    \E h \in Handles, g \in Handles :
        /\ h # g
        /\ req[h] # NoReq /\ req[g] # NoReq
        /\ req[h].room = req[g].room
        /\ req[h].user \in Users /\ req[g].user \in Users /\ req[h].user # req[g].user
        /\ transport[h] = "open" /\ stack[h] = <<EndpointFrame("recv")>>
        /\ Ended(g)
        /\ \E u \in get_connected_users_from_redis(req[h].room) : u.user_id = req[h].user
        /\ ~\E u \in get_connected_users_from_redis(req[h].room) : u.user_id = req[g].user

C26_OneRoomRecord ==
    \A i \in 1..Len(responses), j \in 1..Len(responses) :
        (/\ responses[i].op = "room" /\ responses[j].op = "room"
         /\ responses[i].room = responses[j].room)
        => /\ responses[i].result.value.id = responses[j].result.value.id
           /\ responses[i].result.value.created_at = responses[j].result.value.created_at

\* ------------------------------------------------------------------ C27
\* C27: no step of save_message_to_redis removes a message hash or changes
\* the stored fields of one; an id that the trim dropped from the room's list
\* keeps its hash until the hash expires (or a clear that had listed the id
\* deletes it), and no history read returns it.
C27_TrimKeepsHash ==
    /\ [](\A room \in Rooms :
            LET listed == {msgList[room][i] : i \in 1..Len(msgList[room])}
                evicted == {pushed[room][i] : i \in 1..Len(pushed[room])} \ listed
            IN  \A id \in evicted :
                  /\ \/ <<room, id>> \in DOMAIN msgHash
                     \/ <<room, id>> \in expired
                     \/ \E t \in Tasks :
                          /\ t < NumHandles /\ req[t] # NoReq /\ req[t].op = "clear"
                          /\ req[t].room = room /\ stack[t] # <<>>
                          /\ \E i \in 1..Len(stack[t][1].snap) : stack[t][1].snap[i] = id
                  /\ \A skip \in 0..MaxRange, limit \in 0..MaxRange :
                        LET r == get_messages_from_redis(room, limit, skip)
                        IN  \A j \in 1..Len(r) : r[j].id # id)
    /\ [][\A t \in Tasks :
            (/\ stack[t] # <<>> /\ Top(t).fn = "save_message" /\ stack'[t] # stack[t])
            => \A k \in DOMAIN msgHash :
                 /\ k \in DOMAIN msgHash'
                 /\ [msgHash'[k] EXCEPT !.ttl = msgHash[k].ttl] = msgHash[k]]_vars

\* two appends have completed on a room whose list keeps one id: the older
\* id is off the list and its hash is still stored
C27_Witness ==
    \E room \in Rooms :
        /\ Len(pushed[room]) = 2 /\ Len(msgList[room]) = 1
        /\ pushed[room][1] # msgList[room][1]
        /\ <<room, pushed[room][1]>> \in DOMAIN msgHash
        /\ <<room, pushed[room][2]>> \in DOMAIN msgHash
        /\ msgHash[<<room, pushed[room][2]>>].ttl
        /\ \A t \in Tasks : t < NumHandles => stack[t] = <<>>

\* ------------------------------------------------------------------ C28
\* C28: get_connected_users_from_redis(room) reports exactly the members of
\* connected_users:{room} whose hash is stored, each with the stored username;
\* a member whose hash has expired is not reported, and a member leaves the
\* set only by the SREM of disconnect or remove_user_from_redis for that user
\* (the expiry of the hash leaves the set as it is).
C28_ListSkipsExpired ==
    /\ [](\A room \in Rooms :
            LET list == get_connected_users_from_redis(room) IN
            /\ {u.user_id : u \in list} \subseteq userSet[room]
            /\ \A x \in userSet[room] :
                  IF <<room, x>> \in DOMAIN userHash
                  THEN \E u \in list :
                         /\ u.user_id = x
                         /\ u.username = userHash[<<room, x>>].username
                  ELSE \A u \in list : u.user_id # x
            /\ Cardinality(list) = Cardinality({x \in userSet[room] : <<room, x>> \in DOMAIN userHash}))
    /\ [][\A room \in Rooms : \A x \in userSet[room] \ userSet'[room] :
            \E t \in Tasks :
              /\ stack[t] # <<>> /\ Top(t).pc = "srem"
              /\ \/ Top(t).fn = "disconnect" /\ Top(t).room = room /\ Top(t).user = x
                 \/ Top(t).fn = "remove_user" /\ req[t].room = room /\ req[t].user = x]_vars

\* the hash of one member of a room has expired: the member is in the set
\* and not reported, while another member of the room is reported
C28_Witness ==
    \E room \in Rooms, x \in Users, y \in Users :
        /\ <<room, x>> \in expired
        /\ x \in userSet[room] /\ y \in userSet[room]
        /\ <<room, x>> \notin DOMAIN userHash
        /\ \A u \in get_connected_users_from_redis(room) : u.user_id # x
        /\ \E u \in get_connected_users_from_redis(room) : u.user_id = y

\* ------------------------------------------------------------------ C29
\* C29: whenever no call of save_message_to_redis for a message is in
\* progress, the message's hash, if it is stored, has an expiry set.
C29_HashHasExpiry ==
    \A key \in DOMAIN msgHash :
        (\A t \in Tasks : \A i \in 1..Len(stack[t]) :
            stack[t][i].fn = "save_message" => stack[t][i].msg.id # key[2])
        => msgHash[key].ttl

\* ------------------------------------------------------------------ C30
\* C30: once a client has received the messages_cleared event of a clear, the
\* hashes of the ids the clear listed are deleted, and no message whose append
\* had completed before the clear request arrived is on the room's list or
\* returned by a history read, whatever its skip and limit.
C30_ClearedBeforeEvent ==
    \A h \in Handles : \A i \in 1..Len(inbox[h]) :
        LET e == inbox[h][i]
            t == e.by
            room == e.room
            snap == IF stack[t] # <<>> THEN stack[t][1].snap
                    ELSE LET k == CHOOSE k \in 1..Len(responses) : responses[k].by = t
                         IN  responses[k].result.snap
        IN  e.ev.type = "messages_cleared"
            => /\ \A k \in 1..Len(snap) : <<room, snap[k]>> \notin DOMAIN msgHash
               /\ \A id \in req[t].before :
                     /\ \A k \in 1..Len(msgList[room]) : msgList[room][k] # id
                     /\ \A skip \in 0..MaxRange, limit \in 0..MaxRange :
                           LET r == get_messages_from_redis(room, limit, skip)
                           IN  \A j \in 1..Len(r) : r[j].id # id

\* a client has received messages_cleared with a count of two for a clear
\* that began after two appends had completed
C30_Witness ==
    \E h \in Handles : \E i \in 1..Len(inbox[h]) :
        /\ inbox[h][i].ev.type = "messages_cleared"
        /\ inbox[h][i].ev.cleared_count = 2
        /\ Cardinality(req[inbox[h][i].by].before) = 2
        /\ msgList[inbox[h][i].room] = <<>>

\* ------------------------------------------------------------------ C31
\* C31: a step of clear_all_messages(room) (the list read, a hash delete, the
\* list delete) removes no message hash but one of the room whose id the
\* clear read from the list, changes no stored hash, leaves the lists of the
\* other rooms, the presence hashes and sets and the room records as they
\* are; the hash of an id that was off the list when the clear read it stays.
C31_ClearFrame ==
    [][\A t \in Tasks :
        (/\ t < NumHandles /\ req[t] # NoReq /\ req[t].op = "clear"
         /\ Len(stack[t]) = 1 /\ stack[t][1].pc \in {"lrange", "delete", "del_list"}
         /\ stack'[t] # stack[t])
        => LET room == req[t].room
               snap == stack'[t][1].snap
           IN  /\ userHash' = userHash /\ userSet' = userSet /\ roomHash' = roomHash
               /\ \A r \in Rooms \ {room} : msgList'[r] = msgList[r]
               /\ stack[t][1].pc # "del_list" => msgList' = msgList
               /\ \A key \in DOMAIN msgHash :
                     IF key \in DOMAIN msgHash'
                     THEN msgHash'[key] = msgHash[key]
                     ELSE /\ key[1] = room
                          /\ \E i \in 1..Len(snap) : snap[i] = key[2]
               /\ DOMAIN msgHash' \subseteq DOMAIN msgHash]_vars

\* a clear has deleted one hash and the list key of a room and answered,
\* while the hash of an id that had been trimmed from the list before the
\* clear began is still stored
C31_Witness ==
    \E k \in 1..Len(responses) :
        /\ responses[k].op = "clear"
        /\ responses[k].result.value = 1
        /\ msgList[responses[k].room] = <<>>
        /\ \E id \in req[responses[k].by].before :
              /\ <<responses[k].room, id>> \in DOMAIN msgHash
              /\ \A i \in 1..Len(responses[k].result.snap) : responses[k].result.snap[i] # id

\* ------------------------------------------------------------------ C32
\* C32: whenever a chat_message event is being broadcast or has been
\* delivered to a client, save_message_to_redis for its message has returned
\* with none of its store commands failed: no call for the message is in
\* progress, its id has been pushed to the room's list and its hash is stored
\* with an expiry.  A message one of whose store commands failed is never
\* broadcast.
C32_EventAfterAppend ==
    LET sent == {<<inbox[h][i].room, inbox[h][i].ev.id>> : <<h, i>> \in
                    {x \in Handles \X (1..8) : /\ x[2] <= Len(inbox[x[1]])
                                                 /\ inbox[x[1]][x[2]].ev.type = "chat_message"}}
        going == {<<Frame(ti).room, Frame(ti).ev.id>> : ti \in
                    {x \in BcastFrames : Frame(x).ev.type = "chat_message"}}
    IN  \A key \in sent \cup going :
            /\ \A t \in Tasks : \A i \in 1..Len(stack[t]) :
                  stack[t][i].fn = "save_message" => stack[t][i].msg.id # key[2]
            /\ \E k \in 1..Len(pushed[key[1]]) : pushed[key[1]][k] = key[2]
            /\ key \in DOMAIN msgHash /\ msgHash[key].ttl
            /\ \A k \in 1..Len(faults) : faults[k].id # key[2]

\* a client other than the sender has received the chat_message event of a
\* message that is on its room's list
C32_Witness ==
    \E h \in Handles : \E i \in 1..Len(inbox[h]) :
        /\ inbox[h][i].ev.type = "chat_message"
        /\ inbox[h][i].by # h
        /\ \E k \in 1..Len(msgList[inbox[h][i].room]) :
              msgList[inbox[h][i].room][k] = inbox[h][i].ev.id
        /\ faults = <<>>

\* ------------------------------------------------------------------ C33
\* C33: whenever the handler task of a connection has ended, whatever ended
\* it (a failure of a presence store command included), the connection is in
\* neither active_connections nor connection_info.
C33_EndedUnregistered ==
    \A h \in Handles :
        Ended(h) => /\ h \notin DOMAIN connection_info
                    /\ \A room \in DOMAIN active_connections :
                          h \notin DictValues(active_connections[room])

\* ------------------------------------------------------------------ C34
\* C34: when a clear_all_messages(room) and the append of a message m to the
\* room (the only append since the clear began, so that no trim drops m) have
\* both completed, m's hash is stored only if m's id is on the room's list.
C34_ClearAtomic ==
    \A i \in 1..Len(responses), j \in 1..Len(responses) :
        (/\ responses[i].op = "clear" /\ responses[j].op = "send"
         /\ responses[i].room = responses[j].room)
        => LET room == responses[j].room
               id == responses[j].result.value
           IN  <<room, id>> \in DOMAIN msgHash
               => \E k \in 1..Len(msgList[room]) : msgList[room][k] = id

\* ------------------------------------------------------------------ C35
\* C35: when connections of a room have closed transports, the disconnects
\* started by the handlers and by the cleanup of the broadcasts whose sends
\* fail (each disconnect broadcasting user_left, whose sends fail in turn)
\* come to an end: every task ends or awaits a frame again, every closed
\* connection is then in neither registry map, and user_left has been
\* broadcast for it exactly once (never more than once at any time).
C35_CascadeTerminates ==
    LET closed(h) == transport[h] = "peer_closed"
        lefts(h) == Cardinality({k \in 1..Len(leftCalls) : leftCalls[k].ws = h})
        settled == \A h \in Handles :
                      IF closed(h)
                      THEN /\ stack[h] = <<>>
                           /\ h \notin DOMAIN connection_info
                           /\ \A room \in DOMAIN active_connections :
                                 h \notin DictValues(active_connections[room])
                           /\ lefts(h) = 1
                      ELSE stack[h] = <<EndpointFrame("recv")>>
    IN  /\ [](\A h \in Handles : lefts(h) <= 1)
        /\ \A h \in Handles : closed(h) ~> settled
        /\ <>[]settled

\* the three connections of a room have closed and every task has ended:
\* one task, in the cleanup of its broadcasts, disconnected the two other
\* connections, and user_left was broadcast three times
C35_Witness ==
    /\ \A h \in Handles : transport[h] = "peer_closed" /\ stack[h] = <<>>
    /\ Len(leftCalls) = 3
    /\ \E t \in Tasks :
          Cardinality({k \in 1..Len(leftCalls) :
                         leftCalls[k].by = t /\ leftCalls[k].ws # t}) = 2
    /\ active_connections = <<>>

\* ------------------------------------------------------------------ C36
\* C36: a call of disconnect(ws) that has reached its store calls (or is past
\* them) has already removed ws from both registry maps, and whenever a call
\* of disconnect(ws) returns, normally or after a store command raised, ws is
\* in neither map.
C36_UnregisterFirst ==
    /\ [](\A t \in Tasks : \A i \in 1..Len(stack[t]) :
            (stack[t][i].fn = "disconnect" /\ stack[t][i].pc # "begin")
            => /\ stack[t][i].ws \notin DOMAIN connection_info
               /\ \A room \in DOMAIN active_connections :
                     stack[t][i].ws \notin DictValues(active_connections[room]))
    /\ [][\A t \in Tasks :
            (/\ stack[t] # <<>> /\ Top(t).fn = "disconnect"
             /\ stack'[t] = Pop(stack[t]))
            => /\ Top(t).ws \notin DOMAIN connection_info'
               /\ \A room \in DOMAIN active_connections' :
                     Top(t).ws \notin DictValues(active_connections'[room])]_vars

\* the DEL of a handler's disconnect raised and disconnect has returned: the
\* connection is in neither map while its presence hash and set member are
\* still stored
C36_Witness ==
    \E k \in 1..Len(faults) :
        LET t == faults[k].by IN
        /\ faults[k].id = "disconnect" /\ faults[k].at = "del"
        /\ stack[t] = <<EndpointFrame("ret_disc")>>
        /\ exc[t] = "none"
        /\ t \notin DOMAIN connection_info
        /\ \A room \in DOMAIN active_connections : t \notin DictValues(active_connections[room])
        /\ <<req[t].room, req[t].user>> \in DOMAIN userHash
        /\ req[t].user \in userSet[req[t].room]

\* ------------------------------------------------------------------ C37
\* C37: once disconnect has removed a websocket from the registry (it was
\* registered and connection_info no longer holds it), no step of any
\* broadcast, begun before or after the removal, calls send_text on it or
\* delivers a frame to its client; and no client ever receives the user_left
\* event of its own connection.
C37_NoSendAfterRemoval ==
    /\ [](\A h \in Handles : \A i \in 1..Len(inbox[h]) :
            inbox[h][i].ev # UserLeft(req[h].name))
    /\ [][\A h \in Handles :
            (RegPos(h) > 0 /\ h \notin DOMAIN connection_info)
            => /\ inbox'[h] = inbox[h]
               /\ Len(sendq'[h]) <= Len(sendq[h])]_vars

\* a connection whose handler has called disconnect while its transport is
\* open (after a frame that is not JSON) is out of the registry: user_left
\* for it has reached another client of the room and not its own
C37_Witness ==
    \E h \in Handles, g \in Handles :
        /\ h # g
        /\ RegPos(h) > 0 /\ h \notin DOMAIN connection_info
        /\ transport[h] = "open" /\ transport[g] = "open"
        /\ \E i \in 1..Len(inbox[g]) : inbox[g][i].ev = UserLeft(req[h].name)
        /\ \A i \in 1..Len(inbox[h]) : inbox[h][i].ev.type # "user_left"


\* ------------------------------------------------------------------ C38
\* C38: a chat_message frame whose content is valid (not empty after trimming,
\* at most max_message_length characters) but whose message_type is not one of
\* text, image, file, system is dropped: the step that handles it writes
\* nothing to the message store, builds no ChatMessage, issues no broadcast,
\* sends no frame, leaves the registry alone and puts the handler back at its
\* receive loop with the connection open; and no message of such a type is
\* ever stored or delivered.
C38_BadMessageTypeDropped ==
    /\ [](/\ \A i \in 1..Len(created) : created[i].message_type \in MessageType
          /\ \A h \in Handles : \A i \in 1..Len(inbox[h]) :
                inbox[h][i].ev.type = "chat_message"
                => inbox[h][i].ev.message_type \in MessageType)
    /\ [][\A t \in Tasks :
            (/\ At(t, "handle_msg", "validate")
             /\ Strip(RawContent(Top(t).data)) # <<>>
             /\ Len(Strip(RawContent(Top(t).data))) <= max_message_length
             /\ Get(Top(t).data, "message_type", "text")
                    \notin {"text", "image", "file", "system"})
            => /\ stack'[t] = <<EndpointFrame("recv")>>
               /\ exc'[t] = "none"
               /\ transport'[t] = "open"
               /\ t \in DOMAIN connection_info'
               /\ UNCHANGED <<registryVars, storeVars, inbox, sendq, closeCode,
                              created, nextId, issued, leftCalls>>]_vars

\* a handler received a chat_message frame with content "hi" and message_type
\* "video", and awaits the next frame, its connection open and registered,
\* nothing created or stored
C38_Witness ==
    \E i \in 1..Len(got) :
        LET t == got[i].by
        IN  /\ got[i].text = JsonObject(ChatFrame([content |-> <<"h", "i">>,
                                                   message_type |-> "video"]))
            /\ stack[t] = <<EndpointFrame("recv")>>
            /\ exc[t] = "none"
            /\ transport[t] = "open"
            /\ t \in DOMAIN connection_info
            /\ created = <<>>
            /\ DOMAIN msgHash = {}


\* ------------------------------------------------------------------ C39
\* C39: whenever no task is between two awaits, every entry of
\* active_connections has its description in connection_info: if
\* active_connections[R][U] is the websocket h, then connection_info[h] exists
\* and records dashboard_id R and user_id U; and no room of active_connections
\* has a dict without entries.
C39_ForwardAgreement ==
    Quiet =>
        \A room \in DOMAIN active_connections :
            /\ DictUsed(active_connections[room]) > 0
            /\ \A i \in DictLive(active_connections[room]) :
                  LET e == active_connections[room][i]
                  IN  /\ e.v \in DOMAIN connection_info
                      /\ connection_info[e.v].dashboard_id = room
                      /\ connection_info[e.v].user_id = e.k

\* a websocket was the last of its room and left: its room is gone from
\* active_connections and its description from connection_info, while another
\* room still holds a registered websocket
C39_Witness ==
    /\ Quiet
    /\ \E h \in Handles :
          /\ RegPos(h) > 0
          /\ h \notin DOMAIN connection_info
          /\ req[h].room \notin DOMAIN active_connections
    /\ \E room \in DOMAIN active_connections : DictUsed(active_connections[room]) > 0

====
